---- MODULE Spec2Model ----
(***************************************************************************)
(* Social graph, visibility, engagement and notification fan-out of the    *)
(* social-media backend (followController.js, postController.js,           *)
(* commentController.js and the Follow / Post / Notification schemas).     *)
(*                                                                         *)
(* The document store is modelled by one variable per collection.  Object  *)
(* ids are small integers: users 1..NumUsers, posts and comments by their  *)
(* position in the collection.  An HTTP handler is one action in the       *)
(* sequential specification Spec; in SpecConc the like handler is split at *)
(* its awaits (findById, save, createNotification).  Redis is the set of   *)
(* keys it holds, each with the time it was stored and the time it expires *)
(* (SpecCache, SpecCacheEngage, SpecTTL); SpecFeed and SpecPopular compute *)
(* the feeds from the store, SpecShare covers sharePost.  SpecGraph runs   *)
(* the follow handlers with accounts that can be deactivated, SpecFollowers *)
(* the follower lists among three accounts, SpecFollowConc followUser split *)
(* at its awaits, and SpecReply comments and replies among three accounts. *)
(* SpecNotif reads and deletes notifications, SpecThread deletes comments, *)
(* SpecToggle interleaves Like.toggleLike calls, SpecFollowUnfollow and    *)
(* SpecAcceptConc interleave unfollowUser and acceptFollowRequest at their *)
(* awaits, and SpecRecover lets a follow or unfollow stop half way under   *)
(* weak fairness of the server's steps.                                    *)
(***************************************************************************)
EXTENDS Integers, Sequences, FiniteSets

\* ---------------------------------------------------------------- bounds
NumUsers == 3
NumActors == 2
MaxPosts == 1
MaxFeedPosts == 2
MaxPage == 2
MaxCachePage == 1
PageLimit == 1
TickSeconds == 150
MaxTime == 600
MaxComments == 1
MaxNotifs == 2
MaxThread == 2
MaxThreadNotifs == 3
MaxLikeDocs == 3
MaxFollowNotifs == 3
MaxCount == 1
MaxDrift == 1
MaxReqs == 2

Users == 1..NumUsers
\* the accounts whose requests the smaller specifications follow
Actors == 1..NumActors
\* req.user is undefined for an unauthenticated request
Anon == 0
\* a well-formed id that no User document has
AbsentUser == NumUsers + 1
\* parentComment: null
NoComment == 0
Viewers == Users \cup {Anon}
ActorViewers == Actors \cup {Anon}
PostIds == 1..MaxPosts
FeedPostIds == 1..MaxFeedPosts
Pages == 1..MaxPage
CachePages == 1..MaxCachePage
CommentIds == 1..MaxComments
NotifIds == 1..MaxNotifs
ThreadCommentIds == 1..MaxThread
ReqIds == 1..MaxReqs

VARIABLES
  isPrivate,        \* User.isPrivate
  isActive,         \* User.isActive
  followersCount,   \* User.followersCount
  followingCount,   \* User.followingCount
  follows,          \* Follow collection: <<follower, following>> -> status
  followDocs,       \* Follow collection: the documents, in creation order
  followReqs,       \* follow requests between two awaits (SpecFollowConc)
  likeDocs,         \* Like collection, in creation order; _id is the position
  likeReqs,         \* toggleLike calls between two awaits (SpecToggle)
  posts,            \* Post collection, in creation order
  comments,         \* Comment collection, in creation order
  notifications,    \* Notification collection, in creation order
  inflight,         \* requests between two awaits (SpecConc)
  resp,             \* the last response sent
  redisClient,      \* what getRedisClient() returns: "null", "ready", "closed"
  cache,            \* the keys Redis holds
  now               \* the clock, in seconds

vars == <<isPrivate, isActive, followersCount, followingCount, follows,
          followDocs, followReqs, likeDocs, likeReqs,
          posts, comments, notifications, inflight, resp,
          redisClient, cache, now>>

userVars == <<isPrivate, isActive>>
graphVars == <<followersCount, followingCount, follows, followDocs>>
cacheVars == <<redisClient, cache, now>>
likeVars == <<likeDocs, likeReqs>>

\* ------------------------------------------------------------- helpers
RECURSIVE SumOver(_, _)
SumOver(f, S) ==
  IF S = {} THEN 0
  ELSE LET x == CHOOSE y \in S : TRUE IN f[x] + SumOver(f, S \ {x})

\* likes is an array of {user}; its order is never read, so it is kept as
\* the number of entries per user
NoLikes == [u \in Users |-> 0]
LikesLength(likes) == SumOver(likes, Users)

\* Set -> ascending sequence (the order of the mentions array)
RECURSIVE SetToSeq(_)
SetToSeq(S) ==
  IF S = {} THEN <<>>
  ELSE LET m == CHOOSE x \in S : \A y \in S : x <= y
       IN <<m>> \o SetToSeq(S \ {m})

Response(op, actor, arg, status) ==
  [op |-> op, actor |-> actor, arg |-> arg, status |-> status,
   liked |-> FALSE, count |-> 0, items |-> {}, list |-> <<>>, cached |-> FALSE,
   unreadCount |-> 0]

\* ------------------------------------------------- Notification schema
NoGroupKey == <<>>
\* readAt of a notification that was never marked as read
NoDate == -1

\* notificationSchema.pre('save')
groupKeyOf(type, entityType, entityId) ==
  IF type = "like" /\ entityType = "post" THEN <<"post_like", entityId>>
  ELSE IF type = "comment" /\ entityType = "post" THEN <<"post_comment", entityId>>
  ELSE NoGroupKey

NotificationDoc(recipient, sender, type, entityType, entityId, groupKey) ==
  [recipient |-> recipient, sender |-> sender, type |-> type,
   entityType |-> entityType, entityId |-> entityId, groupKey |-> groupKey,
   isRead |-> FALSE, readAt |-> NoDate, isActive |-> TRUE]

\* Notification.createNotification: new this(data).save(), the pre-save hook runs
createNotification(recipient, sender, type, entityType, entityId) ==
  NotificationDoc(recipient, sender, type, entityType, entityId,
                  groupKeyOf(type, entityType, entityId))

\* --------------------------------------------------------- Like schema
\* a toggleLike call that is not between two awaits
NoLike == 0
IdleToggle == [pc |-> "idle", user |-> Anon, entityType |-> "post", entityId |-> 0,
               existingLike |-> NoLike]

LikeDoc(userId, entityType, entityId) ==
  [user |-> userId, entityType |-> entityType, entityId |-> entityId,
   stored |-> TRUE]

\* the _ids of the stored documents that match {user, entityType, entityId}
likesOf(userId, entityType, entityId) ==
  {i \in 1..Len(likeDocs) :
     /\ likeDocs[i].stored
     /\ likeDocs[i].user = userId
     /\ likeDocs[i].entityType = entityType
     /\ likeDocs[i].entityId = entityId}

\* mutant: the collection has no unique index
likeIndexRejects_noIndex(userId, entityType, entityId) == FALSE

\* likeSchema.index({user: 1, entityType: 1, entityId: 1}, {unique: true})
likeIndexRejects(userId, entityType, entityId) ==
  likesOf(userId, entityType, entityId) # {}

\* const existingLike = await this.findOne({user, entityType, entityId})
toggleLike_findOne(r, userId, entityType, entityId) ==
  /\ userId \in Users /\ entityType \in {"post", "comment"}
  /\ likeReqs[r].pc = "idle"
  /\ \E found \in IF likesOf(userId, entityType, entityId) = {}
                     THEN {NoLike} ELSE likesOf(userId, entityType, entityId) :
       likeReqs' = [likeReqs EXCEPT ![r] =
         [pc |-> "found", user |-> userId, entityType |-> entityType,
          entityId |-> entityId, existingLike |-> found]]
  /\ UNCHANGED <<likeDocs, followReqs, cacheVars, userVars, graphVars, posts,
                 comments, notifications, inflight, resp>>

\* await this.deleteOne({_id: existingLike._id}); return {action: 'unliked'}
toggleLike_deleteOne(r) ==
  /\ likeReqs[r].pc = "found" /\ likeReqs[r].existingLike # NoLike
  /\ LET q == likeReqs[r]
     IN /\ likeDocs' = [likeDocs EXCEPT ![q.existingLike].stored = FALSE]
        /\ resp' = [Response("toggleLike", q.user, <<q.entityType, q.entityId>>, 200)
                      EXCEPT !.liked = FALSE]
  /\ likeReqs' = [likeReqs EXCEPT ![r] = IdleToggle]
  /\ UNCHANGED <<followReqs, cacheVars, userVars, graphVars, posts, comments,
                 notifications, inflight>>

\* await like.save(); return {action: 'liked'}: a duplicate-key error
\* rejects the promise toggleLike returned (status 500 stands for it)
toggleLike_save(r) ==
  /\ likeReqs[r].pc = "found" /\ likeReqs[r].existingLike = NoLike
  /\ LET q == likeReqs[r]
     IN IF likeIndexRejects(q.user, q.entityType, q.entityId)
          THEN /\ resp' = Response("toggleLike", q.user,
                                    <<q.entityType, q.entityId>>, 500)
               /\ UNCHANGED likeDocs
          ELSE /\ Len(likeDocs) < MaxLikeDocs
               /\ likeDocs' = Append(likeDocs,
                                     LikeDoc(q.user, q.entityType, q.entityId))
               /\ resp' = [Response("toggleLike", q.user,
                                     <<q.entityType, q.entityId>>, 200)
                             EXCEPT !.liked = TRUE]
  /\ likeReqs' = [likeReqs EXCEPT ![r] = IdleToggle]
  /\ UNCHANGED <<followReqs, cacheVars, userVars, graphVars, posts, comments,
                 notifications, inflight>>

\* ------------------------------------------------------- Follow schema
\* mutant: the status filter is missing from the query
isFollowing_anyStatus(followerId, followingId) ==
  /\ followerId \in Users
  /\ follows[<<followerId, followingId>>] # "none"

\* mutant: an undefined follower is dropped from the filter, which then
\* matches the accepted edge of any follower
isFollowing_undefinedDropped(followerId, followingId) ==
  IF followerId \in Users
    THEN follows[<<followerId, followingId>>] = "accepted"
    ELSE \E f \in Users : follows[<<f, followingId>>] = "accepted"

\* Follow.isFollowing: findOne({follower, following, status: 'accepted'})
isFollowing(followerId, followingId) ==
  /\ followerId \in Users
  /\ follows[<<followerId, followingId>>] = "accepted"

\* ---------------------------------------------------- followController
\* a followUser request that is not between two awaits
IdleFollow == [pc |-> "idle", op |-> "none", user |-> Anon, target |-> Anon,
               isPrivate |-> FALSE, docGone |-> FALSE]

\* mutant: the status is left to the schema default
newFollowStatus_schemaDefault(userId) == "accepted"

\* status: userToFollow.isPrivate ? 'pending' : 'accepted'
newFollowStatus(userId) == IF isPrivate[userId] THEN "pending" ELSE "accepted"

\* mutant: the handler does not compare the target with the caller
isSelfFollow_never(me, userId) == FALSE

\* if (userId === req.user._id.toString()) return 400
isSelfFollow(me, userId) == userId = me

\* followSchema.pre('save'): follower equal to following is an error, which
\* the catch of the handler answers with 500
followPreSaveRejects(follower, following) == follower = following

\* the documents of the pair <<follower, following>>
docsOf(follower, following) ==
  {i \in 1..Len(followDocs) : followDocs[i] = <<follower, following>>}

\* findOneAndDelete removes one matching document
RECURSIVE withoutFirst(_, _)
withoutFirst(docs, doc) ==
  IF docs = <<>> THEN <<>>
  ELSE IF Head(docs) = doc THEN Tail(docs)
  ELSE <<Head(docs)>> \o withoutFirst(Tail(docs), doc)

\* the status field once one document of the pair is deleted
statusAfterDelete(follower, following) ==
  IF Cardinality(docsOf(follower, following)) > 1
    THEN follows[<<follower, following>>]
    ELSE "none"

\* mutant: an inactive account is taken for an account that can be followed
targetMissing_ignoresInactive(userId) == userId \notin Users

\* if (!userToFollow || !userToFollow.isActive) return 404
targetMissing(userId) == userId \notin Users \/ ~isActive[userId]

\* mutant: every follow is announced as a follow
followNotificationType_alwaysFollow(targetIsPrivate) == "follow"

\* if (!userToFollow.isPrivate) type 'follow' else type 'follow_request'
followNotificationType(targetIsPrivate) ==
  IF ~targetIsPrivate THEN "follow" ELSE "follow_request"

followUser(me, userId) ==
  /\ me \in Users /\ userId \in Users \cup {AbsentUser}
  /\ IF isSelfFollow(me, userId)
       THEN /\ resp' = Response("followUser", me, userId, 400)
            /\ UNCHANGED <<graphVars, notifications>>
     ELSE IF targetMissing(userId)
       THEN /\ resp' = Response("followUser", me, userId, 404)
            /\ UNCHANGED <<graphVars, notifications>>
     ELSE IF follows[<<me, userId>>] # "none"
       THEN /\ resp' = Response("followUser", me, userId, 400)
            /\ UNCHANGED <<graphVars, notifications>>
     ELSE IF followPreSaveRejects(me, userId)
       THEN /\ resp' = Response("followUser", me, userId, 500)
            /\ UNCHANGED <<graphVars, notifications>>
     ELSE /\ Len(notifications) < MaxNotifs
          /\ follows' = [follows EXCEPT ![<<me, userId>>] = newFollowStatus(userId)]
          /\ followDocs' = Append(followDocs, <<me, userId>>)
          /\ followingCount' = [followingCount EXCEPT ![me] = @ + 1]
          /\ followersCount' = [followersCount EXCEPT ![userId] = @ + 1]
          /\ notifications' = Append(notifications,
               createNotification(userId, me,
                 followNotificationType(isPrivate[userId]), "user", me))
          /\ resp' = Response("followUser", me, userId, 201)
  /\ UNCHANGED <<likeVars, followReqs, cacheVars, userVars, posts, comments, inflight>>

unfollowUser(me, userId) ==
  /\ me \in Users /\ userId \in Users
  /\ IF follows[<<me, userId>>] = "none"
       THEN /\ resp' = Response("unfollowUser", me, userId, 404)
            /\ UNCHANGED graphVars
     ELSE /\ follows' = [follows EXCEPT ![<<me, userId>>] = statusAfterDelete(me, userId)]
          /\ followDocs' = withoutFirst(followDocs, <<me, userId>>)
          /\ followingCount' = [followingCount EXCEPT ![me] = @ - 1]
          /\ followersCount' = [followersCount EXCEPT ![userId] = @ - 1]
          /\ resp' = Response("unfollowUser", me, userId, 200)
  /\ UNCHANGED <<likeVars, followReqs, cacheVars, userVars, posts, comments, notifications, inflight>>

\* mutant: the status is missing from the filter of the request to accept
requestToAccept_anyStatus(userId, me) == follows[<<userId, me>>] # "none"

\* Follow.findOne({follower: userId, following: req.user._id, status: 'pending'})
requestToAccept(userId, me) == follows[<<userId, me>>] = "pending"

acceptFollowRequest(me, userId) ==
  /\ me \in Users /\ userId \in Users
  /\ IF ~requestToAccept(userId, me)
       THEN /\ resp' = Response("acceptFollowRequest", me, userId, 404)
            /\ UNCHANGED <<follows, notifications>>
     ELSE /\ Len(notifications) < MaxNotifs
          /\ follows' = [follows EXCEPT ![<<userId, me>>] = "accepted"]
          /\ notifications' = Append(notifications,
               createNotification(userId, me, "follow", "user", me))
          /\ resp' = Response("acceptFollowRequest", me, userId, 200)
  /\ UNCHANGED <<likeVars, followReqs, cacheVars, userVars, followersCount, followingCount,
                 followDocs, posts, comments, inflight>>

\* mutant: the status is missing from the filter of the request to reject
requestToReject_anyStatus(userId, me) == follows[<<userId, me>>] # "none"

\* Follow.findOneAndDelete({follower: userId, following: req.user._id,
\* status: 'pending'})
requestToReject(userId, me) == follows[<<userId, me>>] = "pending"

rejectFollowRequest(me, userId) ==
  /\ me \in Users /\ userId \in Users
  /\ IF ~requestToReject(userId, me)
       THEN /\ resp' = Response("rejectFollowRequest", me, userId, 404)
            /\ UNCHANGED <<follows, followDocs>>
     ELSE /\ follows' = [follows EXCEPT ![<<userId, me>>] = statusAfterDelete(userId, me)]
          /\ followDocs' = withoutFirst(followDocs, <<userId, me>>)
          /\ resp' = Response("rejectFollowRequest", me, userId, 200)
  /\ UNCHANGED <<likeVars, followReqs, cacheVars, userVars, followersCount, followingCount,
                 posts, comments, notifications, inflight>>

\* -------------------------------- followUser, one step per await
\* the self check and await User.findById(userId)
followUser_findById(r, me, userId) ==
  /\ me \in Users /\ userId \in Users \cup {AbsentUser}
  /\ followReqs[r].pc = "idle"
  /\ IF isSelfFollow(me, userId)
       THEN /\ resp' = Response("followUser", me, userId, 400)
            /\ UNCHANGED followReqs
     ELSE IF targetMissing(userId)
       THEN /\ resp' = Response("followUser", me, userId, 404)
            /\ UNCHANGED followReqs
     ELSE /\ followReqs' = [followReqs EXCEPT ![r] =
               [pc |-> "userFound", op |-> "followUser", user |-> me,
                target |-> userId, isPrivate |-> isPrivate[userId],
                docGone |-> FALSE]]
          /\ UNCHANGED resp
  /\ UNCHANGED <<likeVars, graphVars, cacheVars, userVars, posts, comments, notifications,
                 inflight>>

\* await Follow.findOne({follower, following})
followUser_findOne(r) ==
  /\ followReqs[r].pc = "userFound"
  /\ LET q == followReqs[r]
     IN IF follows[<<q.user, q.target>>] # "none"
          THEN /\ resp' = Response("followUser", q.user, q.target, 400)
               /\ followReqs' = [followReqs EXCEPT ![r] = IdleFollow]
          ELSE /\ followReqs' = [followReqs EXCEPT ![r].pc = "notFollowing"]
               /\ UNCHANGED resp
  /\ UNCHANGED <<likeVars, graphVars, cacheVars, userVars, posts, comments, notifications,
                 inflight>>

\* mutant: the collection has no unique index
uniqueIndexRejects_noIndex(follower, following) == FALSE

\* followSchema.index({follower: 1, following: 1}, {unique: true}): the
\* insert of a second document of the pair is a duplicate-key error
uniqueIndexRejects(follower, following) == docsOf(follower, following) # {}

\* await Follow.create(...): an error ends in the 500 of the catch
followUser_create(r) ==
  /\ followReqs[r].pc = "notFollowing"
  /\ LET q == followReqs[r]
     IN IF \/ followPreSaveRejects(q.user, q.target)
           \/ uniqueIndexRejects(q.user, q.target)
          THEN /\ resp' = Response("followUser", q.user, q.target, 500)
               /\ followReqs' = [followReqs EXCEPT ![r] = IdleFollow]
               /\ UNCHANGED <<follows, followDocs>>
          ELSE /\ follows' = [follows EXCEPT ![<<q.user, q.target>>] =
                                IF q.isPrivate THEN "pending" ELSE "accepted"]
               /\ followDocs' = Append(followDocs, <<q.user, q.target>>)
               /\ followReqs' = [followReqs EXCEPT ![r].pc = "created"]
               /\ UNCHANGED resp
  /\ UNCHANGED <<likeVars, followersCount, followingCount, cacheVars, userVars, posts,
                 comments, notifications, inflight>>

\* await User.findByIdAndUpdate(req.user._id, {$inc: {followingCount: 1}})
followUser_incFollowing(r) ==
  /\ followReqs[r].pc = "created"
  /\ followingCount' = [followingCount EXCEPT ![followReqs[r].user] = @ + 1]
  /\ followReqs' = [followReqs EXCEPT ![r].pc = "followingCounted"]
  /\ UNCHANGED <<likeVars, followersCount, follows, followDocs, cacheVars, userVars, posts,
                 comments, notifications, inflight, resp>>

\* await User.findByIdAndUpdate(userId, {$inc: {followersCount: 1}})
followUser_incFollowers(r) ==
  /\ followReqs[r].pc = "followingCounted"
  /\ followersCount' = [followersCount EXCEPT ![followReqs[r].target] = @ + 1]
  /\ followReqs' = [followReqs EXCEPT ![r].pc = "counted"]
  /\ UNCHANGED <<likeVars, followingCount, follows, followDocs, cacheVars, userVars, posts,
                 comments, notifications, inflight, resp>>

\* await Notification.createNotification(...) and res.status(201)
followUser_respond(r) ==
  /\ followReqs[r].pc = "counted"
  /\ LET q == followReqs[r]
     IN /\ Len(notifications) < MaxNotifs
        /\ notifications' = Append(notifications,
             createNotification(q.target, q.user,
               followNotificationType(q.isPrivate), "user", q.user))
        /\ resp' = Response("followUser", q.user, q.target, 201)
        /\ followReqs' = [followReqs EXCEPT ![r] = IdleFollow]
  /\ UNCHANGED <<likeVars, graphVars, cacheVars, userVars, posts, comments, inflight>>

\* ---------------------- unfollowUser and acceptFollowRequest, per await
\* the requests that hold a document of the edge in memory learn nothing of
\* its deletion; docGone records that their document is no longer stored
markGone(reqs, follower, following) ==
  [x \in ReqIds |->
     IF /\ reqs[x].op = "acceptFollowRequest" /\ reqs[x].pc = "requestFound"
        /\ reqs[x].target = follower /\ reqs[x].user = following
       THEN [reqs[x] EXCEPT !.docGone = TRUE]
       ELSE reqs[x]]

\* await Follow.findOneAndDelete({follower: req.user._id, following: userId})
unfollowUser_findOneAndDelete(r, me, userId) ==
  /\ me \in Users /\ userId \in Users
  /\ followReqs[r].pc = "idle"
  /\ IF follows[<<me, userId>>] = "none"
       THEN /\ resp' = Response("unfollowUser", me, userId, 404)
            /\ UNCHANGED <<follows, followDocs, followReqs>>
       ELSE /\ follows' = [follows EXCEPT ![<<me, userId>>] =
                             statusAfterDelete(me, userId)]
            /\ followDocs' = withoutFirst(followDocs, <<me, userId>>)
            /\ followReqs' = [markGone(followReqs, me, userId) EXCEPT ![r] =
                 [pc |-> "deleted", op |-> "unfollowUser", user |-> me,
                  target |-> userId, isPrivate |-> FALSE, docGone |-> FALSE]]
            /\ UNCHANGED resp
  /\ UNCHANGED <<likeVars, followersCount, followingCount, cacheVars, userVars, posts,
                 comments, notifications, inflight>>

\* await User.findByIdAndUpdate(req.user._id, {$inc: {followingCount: -1}})
unfollowUser_decFollowing(r) ==
  /\ followReqs[r].pc = "deleted"
  /\ followingCount' = [followingCount EXCEPT ![followReqs[r].user] = @ - 1]
  /\ followReqs' = [followReqs EXCEPT ![r].pc = "followingDropped"]
  /\ UNCHANGED <<likeVars, followersCount, follows, followDocs, cacheVars, userVars,
                 posts, comments, notifications, inflight, resp>>

\* await User.findByIdAndUpdate(userId, {$inc: {followersCount: -1}}), res.json
unfollowUser_decFollowers(r) ==
  /\ followReqs[r].pc = "followingDropped"
  /\ followersCount' = [followersCount EXCEPT ![followReqs[r].target] = @ - 1]
  /\ resp' = Response("unfollowUser", followReqs[r].user, followReqs[r].target, 200)
  /\ followReqs' = [followReqs EXCEPT ![r] = IdleFollow]
  /\ UNCHANGED <<likeVars, followingCount, follows, followDocs, cacheVars, userVars,
                 posts, comments, notifications, inflight>>

\* await Follow.findOne({follower: userId, following: req.user._id,
\* status: 'pending'})
acceptFollowRequest_findOne(r, me, userId) ==
  /\ me \in Users /\ userId \in Users
  /\ followReqs[r].pc = "idle"
  /\ IF ~requestToAccept(userId, me)
       THEN /\ resp' = Response("acceptFollowRequest", me, userId, 404)
            /\ UNCHANGED followReqs
       ELSE /\ followReqs' = [followReqs EXCEPT ![r] =
                 [pc |-> "requestFound", op |-> "acceptFollowRequest",
                  user |-> me, target |-> userId, isPrivate |-> FALSE,
                  docGone |-> FALSE]]
            /\ UNCHANGED resp
  /\ UNCHANGED <<likeVars, graphVars, cacheVars, userVars, posts, comments,
                 notifications, inflight>>

\* follow.status = 'accepted'; await follow.save(): an update of the one
\* modified path by _id, which rejects when the document is no longer stored
acceptFollowRequest_save(r) ==
  /\ followReqs[r].pc = "requestFound"
  /\ LET q == followReqs[r]
     IN IF q.docGone
          THEN /\ resp' = Response("acceptFollowRequest", q.user, q.target, 500)
               /\ followReqs' = [followReqs EXCEPT ![r] = IdleFollow]
               /\ UNCHANGED follows
          ELSE /\ follows' = [follows EXCEPT ![<<q.target, q.user>>] = "accepted"]
               /\ followReqs' = [followReqs EXCEPT ![r].pc = "saved"]
               /\ UNCHANGED resp
  /\ UNCHANGED <<likeVars, followersCount, followingCount, followDocs, cacheVars,
                 userVars, posts, comments, notifications, inflight>>

\* await Notification.createNotification({type: 'follow'}), res.json
acceptFollowRequest_notify(r) ==
  /\ followReqs[r].pc = "saved"
  /\ LET q == followReqs[r]
     IN /\ Len(notifications) < MaxFollowNotifs
        /\ notifications' = Append(notifications,
             createNotification(q.target, q.user, "follow", "user", q.user))
        /\ resp' = Response("acceptFollowRequest", q.user, q.target, 200)
  /\ followReqs' = [followReqs EXCEPT ![r] = IdleFollow]
  /\ UNCHANGED <<likeVars, graphVars, cacheVars, userVars, posts, comments, inflight>>

\* rejectFollowRequest has one await, findOneAndDelete, before it answers
rejectFollowRequest_findOneAndDelete(me, userId) ==
  /\ me \in Users /\ userId \in Users
  /\ IF ~requestToReject(userId, me)
       THEN /\ resp' = Response("rejectFollowRequest", me, userId, 404)
            /\ UNCHANGED <<follows, followDocs, followReqs>>
       ELSE /\ follows' = [follows EXCEPT ![<<userId, me>>] =
                             statusAfterDelete(userId, me)]
            /\ followDocs' = withoutFirst(followDocs, <<userId, me>>)
            /\ followReqs' = markGone(followReqs, userId, me)
            /\ resp' = Response("rejectFollowRequest", me, userId, 200)
  /\ UNCHANGED <<likeVars, followersCount, followingCount, cacheVars, userVars, posts,
                 comments, notifications, inflight>>

\* an awaited counter update rejects (or the process stops) once the edge
\* is written: the catch block answers 500 and no counter is written
requestFails(r) ==
  /\ followReqs[r].pc \in {"created", "followingCounted", "deleted",
                            "followingDropped"}
  /\ resp' = Response(followReqs[r].op, followReqs[r].user, followReqs[r].target, 500)
  /\ followReqs' = [followReqs EXCEPT ![r] = IdleFollow]
  /\ UNCHANGED <<likeVars, graphVars, cacheVars, userVars, posts, comments,
                 notifications, inflight>>

\* --------------------------------------------------------- Post schema
\* sharedPost of a post that shares nothing
NoPost == 0

\* shares is an array of {user, sharedAt}; only its length is read
PostDoc(author, visibility) ==
  [author |-> author, visibility |-> visibility, isActive |-> TRUE,
   likes |-> NoLikes, likesCount |-> 0,
   comments |-> <<>>, commentsCount |-> 0,
   shares |-> 0, sharesCount |-> 0, sharedPost |-> NoPost, createdAt |-> now]

postExists(id) == id \in 1..Len(posts)

\* postSchema.methods.isLikedBy / the same method of the Comment schema
isLikedBy(doc, userId) == doc.likes[userId] > 0

\* the local edit of likePost / likeComment: filter out every entry of the
\* user when liked, push one entry otherwise
toggledLikes(likes, userId) ==
  IF likes[userId] > 0
    THEN [likes EXCEPT ![userId] = 0]
    ELSE [likes EXCEPT ![userId] = @ + 1]

\* postSchema.pre('save'): likesCount = likes.length when likes is modified
preSaveLikesCount(localLikes) == LikesLength(localLikes)

\* What doc.save() writes for a like toggle whose document was read as
\* `snapshot`.  Mongoose sends the delta of the local edit: a push becomes
\* $push (applied to the stored array, no version check), an assigned array
\* becomes $set of the whole array guarded by the version read; in both cases
\* likesCount is $set to the value the pre-save hook computed locally.
savedLikes(stored, snapshot, userId) ==
  IF snapshot[userId] > 0
    THEN toggledLikes(snapshot, userId)
    ELSE [stored EXCEPT ![userId] = @ + 1]

\* the save is rejected (VersionError) when the array is assigned and the
\* stored version moved since the read
saveRejected(snapshot, userId, stale) == snapshot[userId] > 0 /\ stale

\* ------------------------------------------------- Redis (config/database)
\* connectRedis assigns redisClient before it awaits connect() and only logs
\* a failure: the client is null when createClient threw, connected, or
\* assigned but closed, and a command on a closed client rejects
RedisStates == {"null", "ready", "closed"}
redisThrows == redisClient = "closed"

\* `user_feed:${req.user._id}:${page}:${limit}`
homeFeedKey(userId, page, limit) == <<"user_feed", userId, page, limit>>

\* `popular_posts:${page}:${limit}`
popularKey(page, limit) == <<"popular_posts", page, limit>>

\* redis.setex(cacheKey, 300, ...) of getPosts, in seconds
HomeFeedTTL == 300
\* redis.setex(cacheKey, 600, ...) of getPopularPosts, in seconds
PopularTTL == 600

\* GET: the value stored under exactly this key, while it has not expired
redisGet(key) == {e \in cache : e.key = key /\ e.expiresAt > now}

\* SETEX: replaces the key and its time to live
redisSetex(key, ttl, value) ==
  {e \in cache : e.key # key} \cup
  {[key |-> key, value |-> value, storedAt |-> now, expiresAt |-> now + ttl]}

\* DEL: removes the keys that are exactly equal to one of `keys`
redisDel(keys) == {e \in cache : e.key \notin keys}

\* mutant: every cached home-feed page is dropped with the actor's own
invalidatedKeys_everyFeed(me) ==
  {<<"popular_posts">>, <<"user_feed", me>>} \cup
  {e.key : e \in {x \in cache : x.key[1] = "user_feed"}}

\* the keys createPost, updatePost and deletePost pass to redis.del:
\* 'popular_posts' and `user_feed:${req.user._id}`
invalidatedKeys(me) == {<<"popular_posts">>, <<"user_feed", me>>}

\* if (redis) { await redis.del(...); await redis.del(...) }
invalidateCache(me) ==
  IF redisClient = "ready" THEN redisDel(invalidatedKeys(me)) ELSE cache

\* ------------------------------------------------------ postController
createPost(me, visibility, mentions) ==
  /\ me \in Users
  /\ Len(posts) < MaxFeedPosts
  /\ Len(notifications) + Cardinality(mentions) <= MaxNotifs
  /\ posts' = Append(posts, PostDoc(me, visibility))
  \* Notification.insertMany: one document per mention, no save hook
  /\ notifications' = notifications \o
       [i \in 1..Cardinality(mentions) |->
          NotificationDoc(SetToSeq(mentions)[i], me, "mention", "post",
                          Len(posts) + 1, NoGroupKey)]
  \* the cache is invalidated inside the handler's try block: a rejected
  \* redis.del ends in the 500 of the catch, after the post was stored
  /\ IF redisThrows
       THEN /\ resp' = Response("createPost", me, Len(posts) + 1, 500)
            /\ UNCHANGED cache
       ELSE /\ resp' = Response("createPost", me, Len(posts) + 1, 201)
            /\ cache' = invalidateCache(me)
  /\ UNCHANGED <<likeVars, followReqs, redisClient, now, userVars, graphVars, comments, inflight>>

\* mutant: the check that turns an unauthenticated viewer away from a
\* followers-only post is missing
getPostStatus_noAnonCheck(viewer, post) ==
  IF post.visibility = "private" /\ post.author # viewer THEN 403
  ELSE IF /\ post.visibility = "followers" /\ viewer # Anon
          /\ ~isFollowing(viewer, post.author) /\ post.author # viewer THEN 403
  ELSE 200

\* the visibility checks of getPost, as the status they end in
getPostStatus(viewer, post) ==
  IF post.visibility = "private" /\ post.author # viewer THEN 403
  ELSE IF post.visibility = "followers" /\ viewer = Anon THEN 403
  ELSE IF /\ post.visibility = "followers" /\ viewer # Anon
          /\ ~isFollowing(viewer, post.author) /\ post.author # viewer THEN 403
  ELSE 200

getPost(viewer, id) ==
  /\ viewer \in Viewers
  /\ IF ~postExists(id) \/ ~posts[id].isActive
       THEN resp' = Response("getPost", viewer, id, 404)
       ELSE resp' = Response("getPost", viewer, id, getPostStatus(viewer, posts[id]))
  /\ UNCHANGED <<likeVars, followReqs, cacheVars, userVars, graphVars, posts, comments, notifications, inflight>>

\* "keep" stands for a request body without a visibility
updatePost(me, id, visibility) ==
  /\ me \in Users
  /\ IF ~postExists(id) \/ ~posts[id].isActive
       THEN /\ resp' = Response("updatePost", me, id, 404)
            /\ UNCHANGED <<posts, cache>>
     ELSE IF posts[id].author # me
       THEN /\ resp' = Response("updatePost", me, id, 403)
            /\ UNCHANGED <<posts, cache>>
     ELSE /\ posts' = [posts EXCEPT ![id].visibility =
                         IF visibility = "keep" THEN @ ELSE visibility]
          /\ IF redisThrows
               THEN /\ resp' = Response("updatePost", me, id, 500)
                    /\ UNCHANGED cache
               ELSE /\ resp' = Response("updatePost", me, id, 200)
                    /\ cache' = invalidateCache(me)
  /\ UNCHANGED <<likeVars, followReqs, redisClient, now, userVars, graphVars, comments, notifications,
                 inflight>>

\* every modelled account has role 'user'
deletePost(me, id) ==
  /\ me \in Users
  /\ IF ~postExists(id) \/ ~posts[id].isActive
       THEN /\ resp' = Response("deletePost", me, id, 404)
            /\ UNCHANGED <<posts, cache>>
     ELSE IF posts[id].author # me
       THEN /\ resp' = Response("deletePost", me, id, 403)
            /\ UNCHANGED <<posts, cache>>
     ELSE /\ posts' = [posts EXCEPT ![id].isActive = FALSE]
          /\ IF redisThrows
               THEN /\ resp' = Response("deletePost", me, id, 500)
                    /\ UNCHANGED cache
               ELSE /\ resp' = Response("deletePost", me, id, 200)
                    /\ cache' = invalidateCache(me)
  /\ UNCHANGED <<likeVars, followReqs, redisClient, now, userVars, graphVars, comments, notifications,
                 inflight>>

\* mutant: the notification is created on every toggle
likeNotification_everyToggle(doc, me, entityType, id) ==
  IF doc.author # me
    THEN <<createNotification(doc.author, me, "like", entityType, id)>>
    ELSE <<>>

\* if (!isLiked && author !== req.user._id) createNotification({type: 'like'})
likeNotification(doc, me, entityType, id) ==
  IF ~isLikedBy(doc, me) /\ doc.author # me
    THEN <<createNotification(doc.author, me, "like", entityType, id)>>
    ELSE <<>>

likePost(me, id) ==
  /\ me \in Users
  /\ IF ~postExists(id) \/ ~posts[id].isActive
       THEN /\ resp' = Response("likePost", me, id, 404)
            /\ UNCHANGED <<posts, notifications>>
     ELSE LET post == posts[id]
              local == toggledLikes(post.likes, me)
              note == likeNotification(post, me, "post", id)
          IN /\ Len(notifications) + Len(note) <= MaxNotifs
             /\ posts' = [posts EXCEPT ![id].likes = savedLikes(post.likes, post.likes, me),
                                       ![id].likesCount = preSaveLikesCount(local)]
             /\ notifications' = notifications \o note
             /\ resp' = [Response("likePost", me, id, 200) EXCEPT
                           !.liked = ~isLikedBy(post, me),
                           !.count = preSaveLikesCount(local)]
  /\ UNCHANGED <<likeVars, followReqs, cacheVars, userVars, graphVars, comments, inflight>>

\* mutant: a soft-deleted post is taken for a post that can be shared
shareTargetMissing_ignoresDeleted(id) == ~postExists(id)

\* if (!originalPost || !originalPost.isActive) return 404
shareTargetMissing(id) == ~postExists(id) \/ ~posts[id].isActive

\* the `required` validator of postSchema.content, run by Post.create
contentValidates(hasContent) == hasContent

\* Post.create({author, sharedPost, shareText, visibility: 'public'}) carries
\* no content: the validator rejects it and the catch answers 500
sharePost(me, id) ==
  /\ me \in Users
  /\ IF shareTargetMissing(id)
       THEN /\ resp' = Response("sharePost", me, id, 404)
            /\ UNCHANGED <<posts, notifications>>
     ELSE IF ~contentValidates(FALSE)
       THEN /\ resp' = Response("sharePost", me, id, 500)
            /\ UNCHANGED <<posts, notifications>>
     ELSE LET originalPost == posts[id]
              note == IF originalPost.author # me
                        THEN <<createNotification(originalPost.author, me,
                                                  "share", "post", id)>>
                        ELSE <<>>
          IN /\ Len(posts) < MaxFeedPosts
             /\ Len(notifications) + Len(note) <= MaxNotifs
             \* originalPost.shares.push(...); save(): the hook recounts
             /\ posts' = Append(
                  [posts EXCEPT ![id].shares = @ + 1,
                                ![id].sharesCount = originalPost.shares + 1],
                  [PostDoc(me, "public") EXCEPT !.sharedPost = id])
             /\ notifications' = notifications \o note
             /\ resp' = Response("sharePost", me, Len(posts) + 1, 201)
  /\ UNCHANGED <<likeVars, followReqs, cacheVars, userVars, graphVars, comments, inflight>>

\* ------------------------------------------------------------- feeds
\* mutant: the status filter is missing from the query
getFollowing_anyStatus(userId) ==
  {u \in Users : follows[<<userId, u>>] # "none"}

\* Follow.getFollowing(userId, status = 'accepted'), as followingIds
getFollowing(userId) ==
  {u \in Users : follows[<<userId, u>>] = "accepted"}

\* the filter shared by Post.getFeedPosts and the countDocuments of getPosts
feedFilter(userId, followingIds) ==
  {p \in 1..Len(posts) :
     /\ posts[p].author \in followingIds \/ posts[p].author = userId
     /\ posts[p].visibility = "public"
     /\ posts[p].isActive}

\* .sort({createdAt: -1}); timestamps grow with the position in the
\* collection, which orders two posts of the same clock value
RECURSIVE newestFirst(_)
newestFirst(S) ==
  IF S = {} THEN <<>>
  ELSE LET m == CHOOSE x \in S : \A y \in S :
                  \/ posts[x].createdAt > posts[y].createdAt
                  \/ posts[x].createdAt = posts[y].createdAt /\ x >= y
       IN <<m>> \o newestFirst(S \ {m})

\* .skip((page - 1) * limit).limit(limit)
pageOf(found, page, limit) ==
  SubSeq(found, (page - 1) * limit + 1,
         IF page * limit < Len(found) THEN page * limit ELSE Len(found))

\* postSchema.statics.getFeedPosts
getFeedPosts(userId, followingIds, page, limit) ==
  pageOf(newestFirst(feedFilter(userId, followingIds)), page, limit)

\* mutant: a cache hit stores the entry again with its time to live
cacheAfterHit_touch(entry) ==
  redisSetex(entry.key, entry.expiresAt - entry.storedAt, entry.value)

\* a hit answers with the parsed value and writes nothing to Redis
cacheAfterHit(entry) == cache

getPosts(me, page, limit) ==
  /\ me \in Users
  /\ LET cacheKey == homeFeedKey(me, page, limit)
         cachedPosts == IF redisClient = "ready" THEN redisGet(cacheKey) ELSE {}
         followingIds == getFollowing(me)
         result == [posts |-> getFeedPosts(me, followingIds, page, limit),
                    total |-> Cardinality(feedFilter(me, followingIds))]
     IN IF redisThrows
          THEN /\ resp' = Response("getPosts", me, page, 500)
               /\ UNCHANGED cache
        ELSE IF cachedPosts # {}
          THEN LET entry == CHOOSE e \in cachedPosts : TRUE
               IN /\ resp' = [Response("getPosts", me, page, 200) EXCEPT
                                !.list = entry.value.posts,
                                !.count = entry.value.total,
                                !.cached = TRUE]
                  /\ cache' = cacheAfterHit(entry)
        ELSE /\ resp' = [Response("getPosts", me, page, 200) EXCEPT
                           !.list = result.posts, !.count = result.total]
             /\ cache' = IF redisClient = "ready"
                           THEN redisSetex(cacheKey, HomeFeedTTL, result)
                           ELSE cache
  /\ UNCHANGED <<likeVars, followReqs, redisClient, now, userVars, graphVars, posts, comments,
                 notifications, inflight>>

\* postSchema.virtual('engagementCount')
engagementCount(post) == post.likesCount + post.commentsCount + post.sharesCount

\* createdAt >= Date.now() - 7 days, in seconds
PopularWindow == 7 * 24 * 60 * 60

\* the filter of Post.getPopularPosts
popularFilter ==
  {p \in 1..Len(posts) :
     /\ posts[p].visibility = "public"
     /\ posts[p].isActive
     /\ posts[p].createdAt >= now - PopularWindow}

\* .sort({engagementCount: -1}) names a virtual: no stored document has the
\* field, every document compares equal and the store may return the
\* matches in any order
popularOrders == {o \in [1..Cardinality(popularFilter) -> popularFilter] :
                    \A i, j \in DOMAIN o : i # j => o[i] # o[j]}

\* the viewer is not read: the route answers every caller alike
getPopularPosts(page, limit) ==
  /\ LET cacheKey == popularKey(page, limit)
         cachedPosts == IF redisClient = "ready" THEN redisGet(cacheKey) ELSE {}
     IN IF redisThrows
          THEN /\ resp' = Response("getPopularPosts", Anon, page, 500)
               /\ UNCHANGED cache
        ELSE IF cachedPosts # {}
          THEN LET entry == CHOOSE e \in cachedPosts : TRUE
               IN /\ resp' = [Response("getPopularPosts", Anon, page, 200) EXCEPT
                                !.list = entry.value.posts, !.cached = TRUE]
                  /\ cache' = cacheAfterHit(entry)
        ELSE \E order \in popularOrders :
               LET result == [posts |-> pageOf(order, page, limit), total |-> 0]
               IN /\ resp' = [Response("getPopularPosts", Anon, page, 200) EXCEPT
                                !.list = result.posts]
                  /\ cache' = IF redisClient = "ready"
                                THEN redisSetex(cacheKey, PopularTTL, result)
                                ELSE cache
  /\ UNCHANGED <<likeVars, followReqs, redisClient, now, userVars, graphVars, posts, comments,
                 notifications, inflight>>

\* the clock advances; Redis drops the keys whose time to live has run out
tick ==
  /\ now + TickSeconds <= MaxTime
  /\ now' = now + TickSeconds
  /\ cache' = {e \in cache : e.expiresAt > now + TickSeconds}
  /\ UNCHANGED <<likeVars, followReqs, redisClient, userVars, graphVars, posts, comments,
                 notifications, inflight, resp>>

\* ------------------------------------------- notificationController
notificationExists(id) == id \in 1..Len(notifications)

\* mutant: the recipient is missing from the filter
ownNotification_anyRecipient(id, userId) == notificationExists(id)

\* the filter {_id: notificationId, recipient: userId}
ownNotification(id, userId) ==
  notificationExists(id) /\ notifications[id].recipient = userId

\* mutant: the update flips the read flag
markedRead_flips(n) == [n EXCEPT !.isRead = ~@, !.readAt = now]

\* the update {isRead: true, readAt: new Date()}
markedRead(n) == [n EXCEPT !.isRead = TRUE, !.readAt = now]

\* Notification.markAsRead(req.params.id, req.user._id)
markAsRead(me, id) ==
  /\ me \in Users
  /\ IF ~ownNotification(id, me)
       THEN /\ resp' = Response("markAsRead", me, id, 404)
            /\ UNCHANGED notifications
       ELSE /\ notifications' = [notifications EXCEPT ![id] = markedRead(@)]
            /\ resp' = Response("markAsRead", me, id, 200)
  /\ UNCHANGED <<likeVars, followReqs, cacheVars, userVars, graphVars, posts, comments,
                 inflight>>

\* Notification.markAllAsRead: updateMany({recipient, isRead: false}, ...)
markAllAsRead(me) ==
  /\ me \in Users
  /\ notifications' =
       [i \in 1..Len(notifications) |->
          IF notifications[i].recipient = me /\ ~notifications[i].isRead
            THEN markedRead(notifications[i]) ELSE notifications[i]]
  /\ resp' = Response("markAllAsRead", me, me, 200)
  /\ UNCHANGED <<likeVars, followReqs, cacheVars, userVars, graphVars, posts, comments,
                 inflight>>

\* findOneAndUpdate({_id, recipient}, {isActive: false})
deleteNotification(me, id) ==
  /\ me \in Users
  /\ IF ~ownNotification(id, me)
       THEN /\ resp' = Response("deleteNotification", me, id, 404)
            /\ UNCHANGED notifications
       ELSE /\ notifications' = [notifications EXCEPT ![id].isActive = FALSE]
            /\ resp' = Response("deleteNotification", me, id, 200)
  /\ UNCHANGED <<likeVars, followReqs, cacheVars, userVars, graphVars, posts, comments,
                 inflight>>

\* Notification.getUnreadCount
getUnreadCount(userId) ==
  Cardinality({i \in 1..Len(notifications) :
                 /\ notifications[i].recipient = userId
                 /\ ~notifications[i].isRead
                 /\ notifications[i].isActive})

\* .sort({createdAt: -1}): notifications are stored in creation order
RECURSIVE latestFirst(_)
latestFirst(S) ==
  IF S = {} THEN <<>>
  ELSE LET m == CHOOSE x \in S : \A y \in S : x >= y
       IN <<m>> \o latestFirst(S \ {m})

\* Notification.getUserNotifications(userId, page, limit)
getUserNotifications(userId, page, limit) ==
  pageOf(latestFirst({i \in 1..Len(notifications) :
                        /\ notifications[i].recipient = userId
                        /\ notifications[i].isActive}),
         page, limit)

\* the documents countDocuments(query) counts
countedByQuery(userId, unreadOnly) ==
  {i \in 1..Len(notifications) :
     /\ notifications[i].recipient = userId
     /\ notifications[i].isActive
     /\ unreadOnly => ~notifications[i].isRead}

getNotifications(me, page, limit, unreadOnly) ==
  /\ me \in Users /\ unreadOnly \in BOOLEAN
  /\ resp' = [Response("getNotifications", me, <<page, unreadOnly>>, 200) EXCEPT
                !.list = getUserNotifications(me, page, limit),
                !.count = Cardinality(countedByQuery(me, unreadOnly)),
                !.unreadCount = getUnreadCount(me)]
  /\ UNCHANGED <<likeVars, followReqs, cacheVars, userVars, graphVars, posts, comments,
                 notifications, inflight>>

\* ------------------------------------------- followers and following
\* Follow.getFollowers(userId, 'accepted'): the followers of the accepted
\* documents whose following is userId
getFollowers_find(userId) ==
  {f \in Users : follows[<<f, userId>>] = "accepted"}

\* Follow.getFollowing(userId, 'accepted'), as the accounts followed
getFollowing_find(userId) ==
  {t \in Users : follows[<<userId, t>>] = "accepted"}

\* find() without sort(): the store may return the matches in any order
anyOrder(S) ==
  {o \in [1..Cardinality(S) -> S] : \A i, j \in DOMAIN o : i # j => o[i] # o[j]}

\* the privacy check of getFollowers and getFollowing
listForbidden(viewer, userId) ==
  /\ isPrivate[userId]
  /\ viewer = Anon \/ viewer # userId
  /\ ~isFollowing(viewer, userId)

getFollowers(viewer, userId, page, limit) ==
  /\ viewer \in Viewers /\ userId \in Users \cup {AbsentUser}
  /\ IF targetMissing(userId)
       THEN resp' = Response("getFollowers", viewer, userId, 404)
     ELSE IF listForbidden(viewer, userId)
       THEN resp' = Response("getFollowers", viewer, userId, 403)
     ELSE \E followers \in anyOrder(getFollowers_find(userId)) :
            resp' = [Response("getFollowers", viewer, userId, 200) EXCEPT
                       !.list = pageOf(followers, page, limit),
                       !.count = Cardinality(getFollowers_find(userId))]
  /\ UNCHANGED <<likeVars, followReqs, cacheVars, userVars, graphVars, posts, comments,
                 notifications, inflight>>

getFollowingList(viewer, userId, page, limit) ==
  /\ viewer \in Viewers /\ userId \in Users \cup {AbsentUser}
  /\ IF targetMissing(userId)
       THEN resp' = Response("getFollowing", viewer, userId, 404)
     ELSE IF listForbidden(viewer, userId)
       THEN resp' = Response("getFollowing", viewer, userId, 403)
     ELSE \E following \in anyOrder(getFollowing_find(userId)) :
            resp' = [Response("getFollowing", viewer, userId, 200) EXCEPT
                       !.list = pageOf(following, page, limit),
                       !.count = Cardinality(getFollowing_find(userId))]
  /\ UNCHANGED <<likeVars, followReqs, cacheVars, userVars, graphVars, posts, comments,
                 notifications, inflight>>

\* ------------------------------------------------------ authController
\* User.findByIdAndUpdate(req.user._id, {isActive: false})
deactivateAccount(me) ==
  /\ me \in Users
  /\ isActive' = [isActive EXCEPT ![me] = FALSE]
  /\ resp' = Response("deactivateAccount", me, me, 200)
  /\ UNCHANGED <<likeVars, isPrivate, followReqs, cacheVars, graphVars, posts, comments,
                 notifications, inflight>>

\* Follow.getFollowStats: the accepted edges, counted
getFollowStats(userId) ==
  <<Cardinality({f \in Users : follows[<<f, userId>>] = "accepted"}),
    Cardinality({t \in Users : follows[<<userId, t>>] = "accepted"})>>

\* getUserById answers with the counted edges and writes nothing
getUserById(viewer, identifier) ==
  /\ viewer \in Viewers /\ identifier \in Users \cup {AbsentUser}
  /\ IF targetMissing(identifier)
       THEN resp' = Response("getUserById", viewer, identifier, 404)
     ELSE IF listForbidden(viewer, identifier)
       THEN resp' = Response("getUserById", viewer, identifier, 403)
     ELSE resp' = [Response("getUserById", viewer, identifier, 200) EXCEPT
                     !.list = getFollowStats(identifier)]
  /\ UNCHANGED <<likeVars, followReqs, cacheVars, userVars, graphVars, posts, comments,
                 notifications, inflight>>

\* ---------------------------------- likePost, one step per await
\* a request that is not between two awaits
IdleReq ==
  [pc |-> "idle", user |-> Anon, id |-> 0, likes |-> NoLikes,
   stale |-> FALSE, count |-> 0]

\* await Post.findById(req.params.id)
likePost_findById(r, me, id) ==
  /\ me \in Users
  /\ inflight[r].pc = "idle"
  /\ IF ~postExists(id) \/ ~posts[id].isActive
       THEN /\ resp' = Response("likePost", me, id, 404)
            /\ UNCHANGED inflight
       ELSE /\ inflight' = [inflight EXCEPT ![r] =
                  [pc |-> "found", user |-> me, id |-> id,
                   likes |-> posts[id].likes, stale |-> FALSE, count |-> 0]]
            /\ UNCHANGED resp
  /\ UNCHANGED <<likeVars, followReqs, cacheVars, userVars, graphVars, posts, comments, notifications>>

\* the local edit and await post.save()
likePost_save(r) ==
  /\ inflight[r].pc = "found"
  /\ LET q == inflight[r]
         local == toggledLikes(q.likes, q.user)
     IN IF saveRejected(q.likes, q.user, q.stale)
          THEN /\ resp' = Response("likePost", q.user, q.id, 500)
               /\ inflight' = [inflight EXCEPT ![r] = IdleReq]
               /\ UNCHANGED posts
          ELSE /\ posts' = [posts EXCEPT
                              ![q.id].likes = savedLikes(posts[q.id].likes, q.likes, q.user),
                              ![q.id].likesCount = preSaveLikesCount(local)]
               \* the save moves the stored version: documents read before it
               \* are stale
               /\ inflight' = [x \in ReqIds |->
                    IF x = r
                      THEN [q EXCEPT !.pc = "saved", !.count = preSaveLikesCount(local)]
                    ELSE IF inflight[x].pc = "found" /\ inflight[x].id = q.id
                      THEN [inflight[x] EXCEPT !.stale = TRUE]
                    ELSE inflight[x]]
               /\ UNCHANGED resp
  /\ UNCHANGED <<likeVars, followReqs, cacheVars, userVars, graphVars, comments, notifications>>

\* await Notification.createNotification(...) and res.json(...)
likePost_respond(r) ==
  /\ inflight[r].pc = "saved"
  /\ LET q == inflight[r]
         read == [posts[q.id] EXCEPT !.likes = q.likes]
         note == likeNotification(read, q.user, "post", q.id)
     IN /\ Len(notifications) + Len(note) <= MaxNotifs
        /\ notifications' = notifications \o note
        /\ resp' = [Response("likePost", q.user, q.id, 200) EXCEPT
                      !.liked = ~isLikedBy(read, q.user),
                      !.count = q.count]
        /\ inflight' = [inflight EXCEPT ![r] = IdleReq]
  /\ UNCHANGED <<likeVars, followReqs, cacheVars, userVars, graphVars, posts, comments>>

\* ------------------------------------------------------ Comment schema
CommentDoc(author, post, parentComment) ==
  [author |-> author, post |-> post, parentComment |-> parentComment,
   isActive |-> TRUE, likes |-> NoLikes, likesCount |-> 0, replies |-> <<>>]

commentExists(id) == id \in 1..Len(comments)

\* the Comment schema's pre-save hook
commentPreSaveLikesCount(localLikes) == LikesLength(localLikes)

\* --------------------------------------------------- commentController
\* mutant: the author of the parent comment is notified even when the post
\* is theirs
notifiesParentAuthor_evenPostAuthor(parentAuthor, me, postAuthor) ==
  parentAuthor # me

\* if (parentComment.author !== req.user._id &&
\*     parentComment.author !== post.author)
notifiesParentAuthor(parentAuthor, me, postAuthor) ==
  parentAuthor # me /\ parentAuthor # postAuthor

createComment(me, postId, parentCommentId) ==
  /\ me \in Users
  /\ parentCommentId \in CommentIds \cup {NoComment}
  /\ IF ~postExists(postId) \/ ~posts[postId].isActive
       THEN /\ resp' = Response("createComment", me, postId, 404)
            /\ UNCHANGED <<posts, comments, notifications>>
     ELSE IF /\ parentCommentId # NoComment
             /\ (~commentExists(parentCommentId) \/ ~comments[parentCommentId].isActive)
       THEN /\ resp' = Response("createComment", me, postId, 404)
            /\ UNCHANGED <<posts, comments, notifications>>
     ELSE LET post == posts[postId]
              id == Len(comments) + 1
              type == IF parentCommentId # NoComment THEN "reply" ELSE "comment"
              toPostAuthor ==
                IF post.author # me
                  THEN <<createNotification(post.author, me, type, "comment", id)>>
                  ELSE <<>>
              toParentAuthor ==
                IF /\ parentCommentId # NoComment
                   /\ notifiesParentAuthor(comments[parentCommentId].author,
                                           me, post.author)
                  THEN <<createNotification(comments[parentCommentId].author, me,
                                            "reply", "comment", id)>>
                  ELSE <<>>
          IN /\ Len(comments) < MaxThread
             /\ Len(notifications) + Len(toPostAuthor) + Len(toParentAuthor)
                  <= MaxThreadNotifs
             /\ comments' =
                  LET created == Append(comments, CommentDoc(me, postId, parentCommentId))
                  IN IF parentCommentId # NoComment
                       THEN [created EXCEPT ![parentCommentId].replies = Append(@, id)]
                       ELSE created
             \* post.comments.push(comment._id); post.save(): likes is not
             \* modified, the pre-save hook leaves the counters alone
             /\ posts' = [posts EXCEPT ![postId].comments = Append(@, id)]
             /\ notifications' = notifications \o toPostAuthor \o toParentAuthor
             /\ resp' = Response("createComment", me, id, 201)
  /\ UNCHANGED <<likeVars, followReqs, cacheVars, userVars, graphVars, inflight>>

\* $pull: {comments: comment._id}, and the same on replies
pull(ids, id) == SelectSeq(ids, LAMBDA x : x # id)

\* every modelled account has role 'user'
deleteComment(me, id) ==
  /\ me \in Users
  /\ IF ~commentExists(id) \/ ~comments[id].isActive
       THEN /\ resp' = Response("deleteComment", me, id, 404)
            /\ UNCHANGED <<posts, comments>>
     ELSE IF comments[id].author # me
       THEN /\ resp' = Response("deleteComment", me, id, 403)
            /\ UNCHANGED <<posts, comments>>
     ELSE LET comment == comments[id]
              softDeleted == [comments EXCEPT ![id].isActive = FALSE]
          IN /\ comments' =
                  IF comment.parentComment # NoComment
                    THEN [softDeleted EXCEPT
                            ![comment.parentComment].replies = pull(@, id)]
                    ELSE softDeleted
             \* Post.findByIdAndUpdate: no save, the pre-save hook does not run
             /\ posts' = [posts EXCEPT ![comment.post].comments = pull(@, id)]
             /\ resp' = Response("deleteComment", me, id, 200)
  /\ UNCHANGED <<likeVars, followReqs, cacheVars, userVars, graphVars, notifications,
                 inflight>>

\* Comment.find({post, parentComment: null, isActive: true})
topLevelComments(postId) ==
  {c \in 1..Len(comments) :
     /\ comments[c].post = postId
     /\ comments[c].parentComment = NoComment
     /\ comments[c].isActive}

getComments(viewer, postId) ==
  /\ viewer \in Users
  /\ IF ~postExists(postId) \/ ~posts[postId].isActive
       THEN resp' = Response("getComments", viewer, postId, 404)
       ELSE resp' = [Response("getComments", viewer, postId, 200) EXCEPT
                       !.items = topLevelComments(postId),
                       !.count = Cardinality(topLevelComments(postId))]
  /\ UNCHANGED <<likeVars, followReqs, cacheVars, userVars, graphVars, posts, comments, notifications, inflight>>

likeComment(me, id) ==
  /\ me \in Users
  /\ IF ~commentExists(id) \/ ~comments[id].isActive
       THEN /\ resp' = Response("likeComment", me, id, 404)
            /\ UNCHANGED <<comments, notifications>>
     ELSE LET comment == comments[id]
              local == toggledLikes(comment.likes, me)
              note == likeNotification(comment, me, "comment", id)
          IN /\ Len(notifications) + Len(note) <= MaxNotifs
             /\ comments' = [comments EXCEPT
                               ![id].likes = savedLikes(comment.likes, comment.likes, me),
                               ![id].likesCount = commentPreSaveLikesCount(local)]
             /\ notifications' = notifications \o note
             /\ resp' = [Response("likeComment", me, id, 200) EXCEPT
                           !.liked = ~isLikedBy(comment, me),
                           !.count = commentPreSaveLikesCount(local)]
  /\ UNCHANGED <<likeVars, followReqs, cacheVars, userVars, graphVars, posts, inflight>>

Visibilities == {"public", "followers", "private"}

\* ------------------------------------------------------- specification
InitStore ==
  /\ isPrivate \in [Users -> BOOLEAN]
  /\ isActive = [u \in Users |-> TRUE]
  /\ followersCount = [u \in Users |-> 0]
  /\ followingCount = [u \in Users |-> 0]
  /\ follows = [e \in Users \X Users |-> "none"]
  /\ followDocs = <<>>
  /\ followReqs = [r \in ReqIds |-> IdleFollow]
  /\ likeDocs = <<>>
  /\ likeReqs = [r \in ReqIds |-> IdleToggle]
  /\ posts = <<>>
  /\ comments = <<>>
  /\ notifications = <<>>
  /\ inflight = [r \in ReqIds |-> IdleReq]
  /\ resp = Response("none", Anon, 0, 0)
  /\ cache = {}
  /\ now = 0

\* Redis is connected
\* the accounts that send no request are public
passiveAccounts == \A u \in Users \ Actors : ~isPrivate[u]

Init == InitStore /\ passiveAccounts /\ redisClient = "ready"

\* every outcome of connectRedis
InitCache == InitStore /\ passiveAccounts /\ redisClient \in RedisStates

\* createClient threw: no handler touches Redis and every read is a miss
InitFeed == InitStore /\ passiveAccounts /\ redisClient = "null"

\* the social graph and what it lets a viewer read
Next ==
  \/ \E me \in Actors, userId \in Actors : followUser(me, userId)
  \/ \E me \in Actors, userId \in Actors : unfollowUser(me, userId)
  \/ \E me \in Actors, userId \in Actors : acceptFollowRequest(me, userId)
  \/ \E me \in Actors, userId \in Actors : rejectFollowRequest(me, userId)
  \/ \E me \in Actors, v \in Visibilities, m \in SUBSET Actors :
       Len(posts) < MaxPosts /\ createPost(me, v, m)
  \/ \E viewer \in ActorViewers, id \in PostIds : getPost(viewer, id)
  \/ \E me \in Actors, id \in PostIds, v \in Visibilities \cup {"keep"} :
       updatePost(me, id, v)
  \/ \E me \in Actors, id \in PostIds : deletePost(me, id)
  \/ \E me \in Actors, id \in PostIds, parent \in CommentIds \cup {NoComment} :
       /\ createComment(me, id, parent)
       /\ Len(comments') <= MaxComments /\ Len(notifications') <= MaxNotifs
  \/ \E viewer \in Actors, id \in PostIds : getComments(viewer, id)

Spec == Init /\ [][Next]_vars

\* posts, comments and their likes, one handler at a time
NextEngage ==
  \/ \E me \in Actors, v \in Visibilities, m \in SUBSET Actors :
       Len(posts) < MaxPosts /\ createPost(me, v, m)
  \/ \E me \in Actors, id \in PostIds, parent \in CommentIds \cup {NoComment} :
       /\ createComment(me, id, parent)
       /\ Len(comments') <= MaxComments /\ Len(notifications') <= MaxNotifs
  \/ \E me \in Actors, id \in PostIds : likePost(me, id)
  \/ \E me \in Actors, id \in CommentIds : likeComment(me, id)

SpecEngage == Init /\ [][NextEngage]_vars

\* a post, its comments and the replies to them, among three accounts
NextReply ==
  \/ \E me \in Users :
       Len(posts) < MaxPosts /\ createPost(me, "public", {})
  \/ \E me \in Users, id \in PostIds, parent \in CommentIds \cup {NoComment} :
       createComment(me, id, parent)
  \/ \E viewer \in Users, id \in PostIds : getComments(viewer, id)

SpecReply == Init /\ [][NextReply]_vars

\* notifications of follows, read and deleted by their recipients
NextNotif ==
  \/ \E me \in Actors, userId \in Actors : followUser(me, userId)
  \/ \E me \in Actors, userId \in Actors : unfollowUser(me, userId)
  \/ \E me \in Actors, id \in NotifIds : markAsRead(me, id)
  \/ \E me \in Actors : markAllAsRead(me)
  \/ \E me \in Actors, id \in NotifIds : deleteNotification(me, id)
  \/ \E me \in Actors, page \in Pages, unreadOnly \in BOOLEAN :
       getNotifications(me, page, PageLimit, unreadOnly)

SpecNotif == Init /\ [][NextNotif]_vars

\* a post and the comments written under it and deleted from it
NextThread ==
  \/ \E me \in Actors : Len(posts) < MaxPosts /\ createPost(me, "public", {})
  \/ \E me \in Actors, id \in PostIds, parent \in CommentIds \cup {NoComment} :
       createComment(me, id, parent)
  \/ \E me \in Actors, id \in ThreadCommentIds : deleteComment(me, id)

SpecThread == Init /\ [][NextThread]_vars

\* Like.toggleLike calls interleaved at their awaits
NextToggle ==
  \/ \E r \in ReqIds, userId \in Actors, entityType \in {"post", "comment"},
        entityId \in PostIds :
       toggleLike_findOne(r, userId, entityType, entityId)
  \/ \E r \in ReqIds : toggleLike_deleteOne(r)
  \/ \E r \in ReqIds : toggleLike_save(r)

SpecToggle == Init /\ [][NextToggle]_vars

\* likePost requests interleaved at their awaits
NextConc ==
  \/ \E me \in Actors, v \in Visibilities, m \in SUBSET Actors :
       Len(posts) < MaxPosts /\ createPost(me, v, m)
  \/ \E r \in ReqIds, me \in Actors, id \in PostIds : likePost_findById(r, me, id)
  \/ \E r \in ReqIds : likePost_save(r)
  \/ \E r \in ReqIds : likePost_respond(r)

SpecConc == Init /\ [][NextConc]_vars

\* the same, with every actor running at most one request at a time
NextDistinct ==
  \/ \E me \in Actors, v \in Visibilities, m \in SUBSET Actors :
       Len(posts) < MaxPosts /\ createPost(me, v, m)
  \/ \E r \in ReqIds, me \in Actors, id \in PostIds :
       /\ \A x \in ReqIds : inflight[x].pc # "idle" => inflight[x].user # me
       /\ likePost_findById(r, me, id)
  \/ \E r \in ReqIds : likePost_save(r)
  \/ \E r \in ReqIds : likePost_respond(r)

SpecDistinct == Init /\ [][NextDistinct]_vars

\* the follow handlers and the deactivation of an account
NextGraph ==
  \/ \E me \in Actors, userId \in Actors \cup {AbsentUser} : followUser(me, userId)
  \/ \E me \in Actors, userId \in Actors : unfollowUser(me, userId)
  \/ \E me \in Actors, userId \in Actors : acceptFollowRequest(me, userId)
  \/ \E me \in Actors, userId \in Actors : rejectFollowRequest(me, userId)
  \/ \E me \in Actors : deactivateAccount(me)

SpecGraph == Init /\ [][NextGraph]_vars

\* every outcome of registration: any account may be private
InitAccounts == InitStore /\ redisClient = "ready"

\* the lists of followers and of followed accounts, three accounts
NextFollowers ==
  \/ \E me \in Users, userId \in Users : followUser(me, userId)
  \/ \E me \in Users, userId \in Users : acceptFollowRequest(me, userId)
  \/ \E viewer \in Viewers, userId \in Users, page \in Pages :
       getFollowers(viewer, userId, page, PageLimit)
  \/ \E viewer \in Viewers, userId \in Users, page \in Pages :
       getFollowingList(viewer, userId, page, PageLimit)

SpecFollowers == InitAccounts /\ [][NextFollowers]_vars

\* followUser requests whose awaits interleave
NextFollowConc ==
  \/ \E r \in ReqIds, me \in Actors, userId \in Actors :
       followUser_findById(r, me, userId)
  \/ \E r \in ReqIds : followUser_findOne(r)
  \/ \E r \in ReqIds : followUser_create(r)
  \/ \E r \in ReqIds : followUser_incFollowing(r)
  \/ \E r \in ReqIds : followUser_incFollowers(r)
  \/ \E r \in ReqIds : followUser_respond(r)

SpecFollowConc == Init /\ [][NextFollowConc]_vars

\* followUser and unfollowUser requests whose awaits interleave
NextFollowUnfollow ==
  \/ \E r \in ReqIds, me \in Actors, userId \in Actors :
       followUser_findById(r, me, userId)
  \/ \E r \in ReqIds : followUser_findOne(r)
  \/ \E r \in ReqIds : followUser_create(r)
  \/ \E r \in ReqIds : followUser_incFollowing(r)
  \/ \E r \in ReqIds : followUser_incFollowers(r)
  \/ \E r \in ReqIds : followUser_respond(r)
  \/ \E r \in ReqIds, me \in Actors, userId \in Actors :
       unfollowUser_findOneAndDelete(r, me, userId)
  \/ \E r \in ReqIds : unfollowUser_decFollowing(r)
  \/ \E r \in ReqIds : unfollowUser_decFollowers(r)

SpecFollowUnfollow == Init /\ [][NextFollowUnfollow]_vars

\* a follow request and the accept, reject and unfollow calls that race on it
NextAcceptConc ==
  \/ \E me \in Actors, userId \in Actors : followUser(me, userId)
  \/ \E r \in ReqIds, me \in Actors, userId \in Actors :
       acceptFollowRequest_findOne(r, me, userId)
  \/ \E r \in ReqIds : acceptFollowRequest_save(r)
  \/ \E r \in ReqIds : acceptFollowRequest_notify(r)
  \/ \E me \in Actors, userId \in Actors :
       rejectFollowRequest_findOneAndDelete(me, userId)
  \/ \E r \in ReqIds, me \in Actors, userId \in Actors :
       unfollowUser_findOneAndDelete(r, me, userId)
  \/ \E r \in ReqIds : unfollowUser_decFollowing(r)
  \/ \E r \in ReqIds : unfollowUser_decFollowers(r)

SpecAcceptConc == Init /\ [][NextAcceptConc]_vars

\* follow and unfollow requests that can fail between the edge write and
\* the counter writes, among public accounts; the server keeps taking steps
InitPublic ==
  /\ InitStore
  /\ isPrivate = [u \in Users |-> FALSE]
  /\ redisClient = "ready"

\* the counters SpecRecover follows stay within -MaxDrift..MaxCount
countersBounded ==
  \A u \in Users :
    /\ followersCount[u] >= -MaxDrift /\ followersCount[u] <= MaxCount
    /\ followingCount[u] >= -MaxDrift /\ followingCount[u] <= MaxCount

\* one request at a time is enough for a request that stops half way
RecoverReqs == {1}

NextRecover ==
  \/ \E r \in RecoverReqs, me \in Actors, userId \in Actors :
       followUser_findById(r, me, userId)
  \/ \E r \in RecoverReqs : followUser_findOne(r)
  \/ \E r \in RecoverReqs : followUser_create(r)
  \/ \E r \in RecoverReqs : followUser_incFollowing(r) /\ countersBounded'
  \/ \E r \in RecoverReqs : followUser_incFollowers(r) /\ countersBounded'
  \/ \E r \in RecoverReqs : followUser_respond(r)
  \/ \E r \in RecoverReqs, me \in Actors, userId \in Actors :
       unfollowUser_findOneAndDelete(r, me, userId)
  \/ \E r \in RecoverReqs : unfollowUser_decFollowing(r) /\ countersBounded'
  \/ \E r \in RecoverReqs : unfollowUser_decFollowers(r) /\ countersBounded'
  \/ \E r \in RecoverReqs : requestFails(r)
  \/ \E viewer \in Actors, identifier \in Actors : getUserById(viewer, identifier)

SpecRecover == InitPublic /\ [][NextRecover]_vars /\ WF_vars(NextRecover)

\* sharing a post, one handler at a time
NextShare ==
  \/ \E me \in Actors, v \in Visibilities, m \in SUBSET Actors : createPost(me, v, m)
  \/ \E me \in Actors, id \in FeedPostIds : deletePost(me, id)
  \/ \E me \in Actors, id \in FeedPostIds : sharePost(me, id)

SpecShare == Init /\ [][NextShare]_vars

\* the cache of the feeds and its invalidation, one handler at a time
NextCache ==
  \/ \E me \in Actors, userId \in Actors : followUser(me, userId)
  \/ \E me \in Actors, v \in Visibilities :
       Len(posts) < MaxPosts /\ createPost(me, v, {})
  \/ \E me \in Actors, id \in PostIds, v \in Visibilities \cup {"keep"} :
       updatePost(me, id, v)
  \/ \E me \in Actors, id \in PostIds : deletePost(me, id)
  \/ \E me \in Actors, page \in CachePages : getPosts(me, page, PageLimit)
  \/ \E page \in CachePages : getPopularPosts(page, PageLimit)

SpecCache == InitCache /\ [][NextCache]_vars

\* the cache of the feeds and the handlers of likes and shares
NextCacheEngage ==
  \/ \E me \in Actors, v \in Visibilities :
       Len(posts) < MaxPosts /\ createPost(me, v, {})
  \/ \E me \in Actors, id \in PostIds : likePost(me, id)
  \/ \E me \in Actors, id \in PostIds : sharePost(me, id)
  \/ \E me \in Actors, page \in CachePages : getPosts(me, page, PageLimit)
  \/ \E page \in CachePages : getPopularPosts(page, PageLimit)

SpecCacheEngage == Init /\ [][NextCacheEngage]_vars

\* the lifetime of a cached page
NextTTL ==
  \/ \E me \in Actors : Len(posts) < MaxPosts /\ createPost(me, "public", {})
  \/ \E me \in Actors, page \in CachePages : getPosts(me, page, PageLimit)
  \/ \E page \in CachePages : getPopularPosts(page, PageLimit)
  \/ tick

SpecTTL == Init /\ [][NextTTL]_vars

\* the most engaging posts
NextPopular ==
  \/ \E me \in Actors, v \in Visibilities : createPost(me, v, {})
  \/ \E me \in Actors, id \in FeedPostIds : likePost(me, id)
  \/ \E page \in Pages : getPopularPosts(page, PageLimit)

SpecPopular == InitFeed /\ [][NextPopular]_vars

\* the home feed when it is computed, one handler at a time
NextFeed ==
  \/ \E me \in Actors, userId \in Actors : followUser(me, userId)
  \/ \E me \in Actors, userId \in Actors : acceptFollowRequest(me, userId)
  \/ \E me \in Actors, v \in Visibilities : createPost(me, v, {})
  \/ \E me \in Actors, id \in FeedPostIds, v \in Visibilities \cup {"keep"} :
       updatePost(me, id, v)
  \/ \E me \in Actors, id \in FeedPostIds : deletePost(me, id)
  \/ \E me \in Actors, page \in Pages : getPosts(me, page, PageLimit)

SpecFeed == InitFeed /\ [][NextFeed]_vars

\* ================================================================ claims
\* the visibility table of the specification (section 4.2)
canView(viewer, post) ==
  CASE post.visibility = "public" -> TRUE
    [] post.visibility = "followers" ->
         \/ viewer = post.author
         \/ viewer \in Users /\ follows[<<viewer, post.author>>] = "accepted"
    [] post.visibility = "private" -> viewer = post.author

acceptedFollowers(u) == {f \in Users : follows[<<f, u>>] = "accepted"}
acceptedFollowing(u) == {t \in Users : follows[<<u, t>>] = "accepted"}
quiescent == \A r \in ReqIds : inflight[r].pc = "idle"

\* C1: after any sequence of completed follow / accept / reject / unfollow
\* operations, every account's followersCount is the number of accepted edges
\* targeting it and its followingCount the number of accepted edges leaving it.
C1_CountersMatchAcceptedEdges ==
  \A u \in Users :
    /\ followersCount[u] = Cardinality(acceptedFollowers(u))
    /\ followingCount[u] = Cardinality(acceptedFollowing(u))

\* C2: followUser(F,T) on a private T with no edge creates a pending edge,
\* leaves isFollowing(F,T) false and both counters unchanged; the following
\* acceptFollowRequest(T,F) makes isFollowing(F,T) true and raises both
\* counters by exactly 1.
C2_PendingRequestThenAccept ==
  [][\A f \in Users, t \in Users :
       /\ (/\ followUser(f, t)
           /\ f # t /\ isActive[t] /\ isPrivate[t] /\ follows[<<f, t>>] = "none")
          => /\ follows'[<<f, t>>] = "pending"
             /\ ~isFollowing(f, t)'
             /\ followersCount'[t] = followersCount[t]
             /\ followingCount'[f] = followingCount[f]
       /\ (acceptFollowRequest(t, f) /\ follows[<<f, t>>] = "pending")
          => /\ isFollowing(f, t)'
             /\ followersCount'[t] = followersCount[t] + 1
             /\ followingCount'[f] = followingCount[f] + 1
    ]_vars

\* C3: once every in-flight like toggle has completed, likesCount of every
\* post and comment equals the number of entries of its likes array, for any
\* interleaving of toggles issued by distinct actors.
C3_LikesCountMatchesLikes ==
  quiescent =>
    /\ \A p \in 1..Len(posts) : posts[p].likesCount = LikesLength(posts[p].likes)
    /\ \A c \in 1..Len(comments) :
         comments[c].likesCount = LikesLength(comments[c].likes)

\* C4: two concurrent like toggles by the same actor on the same entity leave
\* at most one entry of that actor in its likes array, in any interleaving.
C4_AtMostOneLikePerActor ==
  /\ \A p \in 1..Len(posts) : \A u \in Users : posts[p].likes[u] <= 1
  /\ \A c \in 1..Len(comments) : \A u \in Users : comments[c].likes[u] <= 1

\* C5: no persisted notification has its recipient equal to its sender,
\* whatever operation created it.
C5_NoSelfNotification ==
  \A i \in 1..Len(notifications) :
    notifications[i].recipient # notifications[i].sender

C7_CommentsInheritVisibility ==
  [][\A viewer \in Users, id \in PostIds :
       (getComments(viewer, id) /\ postExists(id) /\ posts[id].isActive)
       => (resp'.status = 200 => canView(viewer, posts[id]))
    ]_vars

\* C8: a post the visibility checks allow to an anonymous viewer is allowed
\* to every authenticated viewer (author, accepted follower or other).
C8_AnonymousAllowedImpliesAll ==
  \A p \in 1..Len(posts) :
    (posts[p].isActive /\ getPostStatus(Anon, posts[p]) = 200)
    => \A viewer \in Users : getPostStatus(viewer, posts[p]) = 200

C8_Witness ==
  /\ resp.op = "getPost" /\ resp.actor = Anon /\ resp.status = 200
  /\ \E v \in Users :
       /\ v # posts[resp.arg].author
       /\ follows[<<v, posts[resp.arg].author>>] # "accepted"

\* C9: for a followers-only post of A and a viewer V other than A, the view
\* decision is deny while the edge (V,A) is missing or pending, allow once
\* it is accepted (by followUser for a public A, by acceptFollowRequest for
\* a private A) and deny again after unfollowUser(V,A).
C9_FollowersPostTracksEdge ==
  [][\A v \in Users, p \in PostIds :
       (postExists(p) /\ posts[p].isActive /\ posts[p].visibility = "followers"
        /\ v # posts[p].author)
       => LET a == posts[p].author IN
          /\ follows[<<v, a>>] \in {"none", "pending"} => getPostStatus(v, posts[p]) = 403
          /\ follows[<<v, a>>] = "accepted" => getPostStatus(v, posts[p]) = 200
          /\ (followUser(v, a) /\ resp'.status = 201)
             => getPostStatus(v, posts[p])' = (IF isPrivate[a] THEN 403 ELSE 200)
          /\ (acceptFollowRequest(a, v) /\ resp'.status = 200)
             => getPostStatus(v, posts[p])' = 200
          /\ (unfollowUser(v, a) /\ resp'.status = 200)
             => getPostStatus(v, posts[p])' = 403
    ]_vars

C9_Witness ==
  /\ resp.op = "unfollowUser" /\ resp.status = 200
  /\ \E p \in 1..Len(posts) :
       /\ posts[p].visibility = "followers"
       /\ posts[p].author = resp.arg
       /\ getPostStatus(resp.actor, posts[p]) = 403

\* C10: a sequential like toggle by U on an active post or comment adds U's
\* entry, answers liked = true and the count raised by 1 when U had no entry,
\* and removes it, answers liked = false and the count lowered by 1 when U
\* had one, so that a second call restores the first call's prior state; a
\* like notification is created only by the call that adds the entry.
LikeToggleStep(before, after, me, added) ==
  IF ~isLikedBy(before, me)
    THEN /\ after.likes[me] = 1
         /\ resp'.liked /\ resp'.count = before.likesCount + 1
         /\ after.likesCount = before.likesCount + 1
         /\ toggledLikes(after.likes, me) = before.likes
         /\ Len(added) = (IF before.author = me THEN 0 ELSE 1)
         /\ \A i \in 1..Len(added) :
              /\ added[i].type = "like" /\ added[i].sender = me
              /\ added[i].recipient = before.author
    ELSE /\ after.likes[me] = 0
         /\ ~resp'.liked /\ resp'.count = before.likesCount - 1
         /\ after.likesCount = before.likesCount - 1
         /\ toggledLikes(after.likes, me) = before.likes
         /\ added = <<>>

C10_LikeToggleInvolution ==
  [][\A me \in Users :
       /\ \A id \in PostIds :
            (likePost(me, id) /\ resp'.status = 200)
            => LikeToggleStep(posts[id], posts'[id], me,
                              SubSeq(notifications', Len(notifications) + 1,
                                     Len(notifications')))
       /\ \A id \in CommentIds :
            (likeComment(me, id) /\ resp'.status = 200)
            => LikeToggleStep(comments[id], comments'[id], me,
                              SubSeq(notifications', Len(notifications) + 1,
                                     Len(notifications')))
    ]_vars

C10_Witness ==
  /\ resp.op = "likePost" /\ resp.status = 200 /\ ~resp.liked
  /\ posts[resp.arg].author # resp.actor
  /\ posts[resp.arg].likes[resp.actor] = 0
  /\ \E i \in 1..Len(notifications) :
       /\ notifications[i].type = "like"
       /\ notifications[i].sender = resp.actor

\* C11: every sharePost on an existing, active post succeeds: it stores a new
\* public post that references the original and raises the original's
\* sharesCount by exactly one, and no step lowers a stored sharesCount.
C11_ShareCreatesPostAndCounts ==
  [][ /\ \A me \in Users, id \in FeedPostIds :
           (sharePost(me, id) /\ postExists(id) /\ posts[id].isActive) =>
             /\ resp'.status = 201
             /\ Len(posts') = Len(posts) + 1
             /\ posts'[Len(posts')].sharedPost = id
             /\ posts'[Len(posts')].visibility = "public"
             /\ posts'[id].sharesCount = posts[id].sharesCount + 1
      /\ \A p \in 1..Len(posts) : posts'[p].sharesCount >= posts[p].sharesCount
    ]_vars

\* C12: sharePost on a post that does not exist or is soft-deleted answers
\* 404 and changes no post, comment, notification, edge, counter or cache key.
C12_ShareOfMissingPostIsNotFound ==
  [][ \A me \in Users, id \in FeedPostIds :
        (sharePost(me, id) /\ (~postExists(id) \/ ~posts[id].isActive)) =>
          /\ resp'.status = 404
          /\ UNCHANGED <<posts, comments, notifications, graphVars, cache>>
    ]_vars

\* a share of a soft-deleted post was turned away
C12_Witness ==
  /\ resp.op = "sharePost" /\ resp.status = 404
  /\ postExists(resp.arg) /\ ~posts[resp.arg].isActive

\* a cached page of the popular feed or of the home feed of `me`
ownOrPopular(e, me) ==
  \/ e.key[1] = "popular_posts"
  \/ e.key[1] = "user_feed" /\ e.key[2] = me

\* C13: once createPost, updatePost or deletePost by an actor has succeeded,
\* Redis holds no page of the actor's home feed and no page of the popular
\* feed.
C13_PostMutationDropsCachedPages ==
  [][ \A me \in Users :
        ( /\ \/ \E v \in Visibilities : createPost(me, v, {})
             \/ \E id \in PostIds, v \in Visibilities \cup {"keep"} :
                  updatePost(me, id, v)
             \/ \E id \in PostIds : deletePost(me, id)
          /\ resp'.status \in {200, 201} )
        => \A e \in cache' : ~ownOrPopular(e, me)
    ]_vars

\* C14: once likePost, createComment or sharePost by an actor has succeeded,
\* Redis holds no page of the actor's home feed and no page of the popular
\* feed.
C14_EngagementDropsCachedPages ==
  [][ \A me \in Users :
        ( /\ \/ \E id \in PostIds : likePost(me, id)
             \/ \E id \in PostIds : createComment(me, id, NoComment)
             \/ \E id \in PostIds : sharePost(me, id)
          /\ resp'.status \in {200, 201} )
        => \A e \in cache' : ~ownOrPopular(e, me)
    ]_vars

\* C15: createPost by an author leaves every cached home-feed page of every
\* other user as it was, accepted followers of the author included.
C15_CreatePostKeepsOtherFeeds ==
  [][ \A me \in Users, v \in Visibilities :
        createPost(me, v, {}) =>
          \A e \in cache : (e.key[1] = "user_feed" /\ e.key[2] # me) => e \in cache'
    ]_vars

\* an accepted follower's cached page lacks the public post just created
C15_Witness ==
  /\ resp.op = "createPost" /\ resp.status = 201
  /\ posts[resp.arg].visibility = "public"
  /\ \E f \in Users \ {resp.actor}, page \in CachePages :
       /\ follows[<<f, resp.actor>>] = "accepted"
       /\ \E e \in cache :
            /\ e.key = homeFeedKey(f, page, PageLimit)
            /\ \A i \in 1..Len(e.value.posts) : e.value.posts[i] # resp.arg

\* the time to live the handlers give a key of this kind
ttlOfKey(key) == IF key[1] = "user_feed" THEN HomeFeedTTL ELSE PopularTTL

\* C16: a cached home-feed page is served no later than 300 seconds after it
\* was stored and a popular page no later than 600; a hit leaves the stored
\* entry and its lifetime as they were; a read that finds no live entry
\* computes the page and stores it with a fresh lifetime.
C16_CachedPageLifetime ==
  [][ \A page \in CachePages :
        \A key \in {homeFeedKey(me, page, PageLimit) : me \in Users}
                  \cup {popularKey(page, PageLimit)} :
          ( /\ \/ \E me \in Users : /\ key = homeFeedKey(me, page, PageLimit)
                                      /\ getPosts(me, page, PageLimit)
               \/ /\ key = popularKey(page, PageLimit)
                  /\ getPopularPosts(page, PageLimit) )
          => IF resp'.cached
               THEN /\ \E e \in cache :
                         /\ e.key = key
                         /\ now - e.storedAt <= ttlOfKey(key)
                         /\ resp'.list = e.value.posts
                    /\ cache' = cache
               ELSE /\ \A e \in cache : e.key = key => now - e.storedAt >= ttlOfKey(key)
                    /\ \E e \in cache' :
                         /\ e.key = key /\ e.storedAt = now
                         /\ e.expiresAt = now + ttlOfKey(key)
                         /\ e.value.posts = resp'.list
    ]_vars

\* a page was served from the cache some time after it was stored
C16_Witness ==
  /\ resp.op = "getPosts" /\ resp.cached
  /\ \E e \in cache :
       /\ e.key = homeFeedKey(resp.actor, resp.arg, PageLimit)
       /\ e.storedAt < now

\* C17: no rejected cache call and no failed connection to Redis makes a
\* handler that uses the cache answer 500.
C17_CacheFailureNeverFailsHandler ==
  [][ ( \/ \E me \in Users, v \in Visibilities : createPost(me, v, {})
        \/ \E me \in Users, id \in PostIds, v \in Visibilities \cup {"keep"} :
             updatePost(me, id, v)
        \/ \E me \in Users, id \in PostIds : deletePost(me, id)
        \/ \E me \in Users, page \in CachePages : getPosts(me, page, PageLimit)
        \/ \E page \in CachePages : getPopularPosts(page, PageLimit) )
      => resp'.status # 500
    ]_vars

\* the posts the specification puts in the home feed of `me`: active, public,
\* written by `me` or by an account `me` follows with an accepted edge
homeFeedPosts(me) ==
  {p \in 1..Len(posts) :
     /\ posts[p].isActive
     /\ posts[p].visibility = "public"
     /\ \/ posts[p].author = me
        \/ follows[<<me, posts[p].author>>] = "accepted"}

\* `list` is page `page` of the set S read in the order `before`
isPageOf(list, S, page, limit, before(_, _)) ==
  /\ \A i \in 1..Len(list) :
       /\ list[i] \in S
       /\ Cardinality({q \in S : before(q, list[i])}) = (page - 1) * limit + i - 1
  /\ Len(list) =
       IF Cardinality(S) >= page * limit THEN limit
       ELSE IF Cardinality(S) > (page - 1) * limit
         THEN Cardinality(S) - (page - 1) * limit
       ELSE 0

\* q was created after p
createdLater(q, p) == q > p

\* C18: a getPosts that is not answered from the cache returns, newest first
\* and page by page, exactly the active public posts written by the caller or
\* by an account the caller follows with an accepted edge, and their number.
C18_HomeFeedIsAcceptedAudience ==
  [][ \A me \in Users, page \in Pages :
        (resp'.op = "getPosts" /\ ~resp'.cached /\ getPosts(me, page, PageLimit)) =>
          /\ resp'.status = 200
          /\ resp'.count = Cardinality(homeFeedPosts(me))
          /\ isPageOf(resp'.list, homeFeedPosts(me), page, PageLimit, createdLater)
    ]_vars

\* a computed page holds the public post of an account the caller follows,
\* while the caller's own private post is left out
C18_Witness ==
  /\ resp.op = "getPosts" /\ resp.status = 200 /\ ~resp.cached
  /\ \E i \in 1..Len(resp.list) : posts[resp.list[i]].author # resp.actor
  /\ \E p \in 1..Len(posts) :
       /\ posts[p].author = resp.actor /\ posts[p].visibility # "public"

\* q is more engaging than p, or as engaging and created after it
moreEngaging(q, p) ==
  LET e(x) == posts[x].likesCount + posts[x].commentsCount + posts[x].sharesCount
  IN e(q) > e(p) \/ (e(q) = e(p) /\ q > p)

\* C19: a getPopularPosts that is not answered from the cache returns the
\* active public posts ordered by likesCount + commentsCount + sharesCount,
\* highest first, and by creation time, newest first, among equals.
C19_PopularOrderedByEngagement ==
  [][ \A page \in Pages :
        (resp'.op = "getPopularPosts" /\ ~resp'.cached
           /\ getPopularPosts(page, PageLimit)) =>
          /\ resp'.status = 200
          /\ isPageOf(resp'.list,
                      {p \in 1..Len(posts) :
                         posts[p].isActive /\ posts[p].visibility = "public"},
                      page, PageLimit, moreEngaging)
    ]_vars

\* C20: no Follow edge joins an account to itself, and followUser with the
\* caller as target answers 400 and leaves edges, counters and notifications
\* as they were.
C20_NoSelfFollow ==
  [][ /\ \A u \in Users : follows'[<<u, u>>] = "none"
      /\ \A me \in Users :
           (resp'.op = "followUser" /\ followUser(me, me)) =>
             /\ resp'.status = 400
             /\ UNCHANGED <<graphVars, notifications>>
    ]_vars

\* a follow of oneself was turned away
C20_Witness ==
  /\ resp.op = "followUser" /\ resp.actor = resp.arg /\ resp.status = 400

\* C21: however the awaits of concurrent followUser requests interleave, a
\* pair of accounts has at most one Follow document, and the counters of an
\* account never exceed the number of pairs it is part of: the request whose
\* create is rejected as a duplicate increments nothing.
C21_ConcurrentFollowCountsOnce ==
  /\ \A f \in Users, t \in Users : Cardinality(docsOf(f, t)) <= 1
  /\ \A u \in Users :
       /\ followingCount[u] <= Cardinality({t \in Users : docsOf(u, t) # {}})
       /\ followersCount[u] <= Cardinality({f \in Users : docsOf(f, u) # {}})

\* two requests for one pair have both ended: one created the edge and
\* counted it, the other was rejected by the unique index
C21_Witness ==
  /\ \A r \in ReqIds : followReqs[r].pc = "idle"
  /\ resp.op = "followUser" /\ resp.status = 500
  /\ docsOf(resp.actor, resp.arg) # {}
  /\ followingCount[resp.actor] = 1 /\ followersCount[resp.arg] = 1

\* C22: followUser on a target that is absent or inactive answers 404, and on
\* a target the caller already has an edge to, pending or accepted, answers
\* 400; in both cases edges, counters and notifications stay as they were.
C22_FollowOfMissingOrFollowed ==
  [][ \A me \in Users, t \in Users \cup {AbsentUser} :
        (resp'.op = "followUser" /\ t # me /\ followUser(me, t)) =>
          /\ (t \notin Users \/ ~isActive[t]) =>
               /\ resp'.status = 404
               /\ UNCHANGED <<graphVars, notifications>>
          /\ (t \in Users /\ isActive[t] /\ follows[<<me, t>>] # "none") =>
               /\ resp'.status = 400
               /\ UNCHANGED <<graphVars, notifications>>
    ]_vars

\* a follow of a deactivated account was turned away
C22_Witness ==
  /\ resp.op = "followUser" /\ resp.status = 404
  /\ resp.arg \in Users /\ ~isActive[resp.arg]

\* C23: acceptFollowRequest succeeds exactly when the edge from the follower
\* to the caller is pending; it then makes the edge accepted and stores one
\* follow notification for the follower.  Otherwise it answers 404 and
\* changes no edge, counter or notification.
C23_AcceptNeedsPendingEdge ==
  [][ \A me \in Users, u \in Users :
        (resp'.op = "acceptFollowRequest" /\ acceptFollowRequest(me, u)) =>
          IF follows[<<u, me>>] = "pending"
            THEN /\ resp'.status = 200
                 /\ follows' = [follows EXCEPT ![<<u, me>>] = "accepted"]
                 /\ Len(notifications') = Len(notifications) + 1
                 /\ SubSeq(notifications', 1, Len(notifications)) = notifications
                 /\ notifications'[Len(notifications')].recipient = u
                 /\ notifications'[Len(notifications')].sender = me
                 /\ notifications'[Len(notifications')].type = "follow"
            ELSE /\ resp'.status = 404
                 /\ UNCHANGED <<graphVars, notifications>>
    ]_vars

\* a pending request was accepted and its sender told
C23_Witness ==
  /\ resp.op = "acceptFollowRequest" /\ resp.status = 200
  /\ follows[<<resp.arg, resp.actor>>] = "accepted"
  /\ notifications[Len(notifications)].recipient = resp.arg
  /\ notifications[Len(notifications)].type = "follow"

\* C24: rejectFollowRequest on a pending edge deletes it and leaves every
\* counter as it was; on an accepted or missing edge it answers 404 and
\* changes nothing.  With the edge gone, a followUser of the same pair is
\* accepted again.
C24_RejectDeletesPendingEdge ==
  [][ /\ \A me \in Users, u \in Users :
           (resp'.op = "rejectFollowRequest" /\ rejectFollowRequest(me, u)) =>
             IF follows[<<u, me>>] = "pending"
               THEN /\ resp'.status = 200
                    /\ follows' = [follows EXCEPT ![<<u, me>>] = "none"]
                    /\ docsOf(u, me)' = {}
                    /\ UNCHANGED <<followersCount, followingCount, notifications>>
               ELSE /\ resp'.status = 404
                    /\ UNCHANGED <<graphVars, notifications>>
      /\ \A f \in Users, t \in Users :
           ( /\ resp'.op = "followUser" /\ followUser(f, t)
             /\ f # t /\ isActive[t] /\ follows[<<f, t>>] = "none" ) =>
             resp'.status = 201
    ]_vars

\* a pending request was rejected and its edge is gone
C24_Witness ==
  /\ resp.op = "rejectFollowRequest" /\ resp.status = 200
  /\ follows[<<resp.arg, resp.actor>>] = "none"
  /\ followersCount[resp.actor] > 0

\* C25: unfollowUser deletes the edge whatever its status; it lowers
\* followingCount of the caller and followersCount of the target by one when
\* the edge was accepted and leaves both as they were when it was pending;
\* without an edge it answers 404 and changes nothing.
C25_UnfollowCountsAcceptedOnly ==
  [][ \A me \in Users, t \in Users :
        (resp'.op = "unfollowUser" /\ unfollowUser(me, t)) =>
          IF follows[<<me, t>>] = "none"
            THEN /\ resp'.status = 404
                 /\ UNCHANGED <<graphVars, notifications>>
            ELSE /\ resp'.status = 200
                 /\ follows' = [follows EXCEPT ![<<me, t>>] = "none"]
                 /\ IF follows[<<me, t>>] = "accepted"
                      THEN /\ followingCount' =
                                [followingCount EXCEPT ![me] = @ - 1]
                           /\ followersCount' =
                                [followersCount EXCEPT ![t] = @ - 1]
                      ELSE UNCHANGED <<followersCount, followingCount>>
    ]_vars

\* C26: a followUser that succeeds creates the edge as pending when the
\* target is private and as accepted otherwise, and stores exactly one
\* notification for the target: follow_request for a pending edge, follow
\* for an accepted one.
C26_FollowStatusAndNotification ==
  [][ \A me \in Users, t \in Users :
        (resp'.op = "followUser" /\ resp'.status = 201 /\ followUser(me, t)) =>
          /\ follows' = [follows EXCEPT ![<<me, t>>] =
                           IF isPrivate[t] THEN "pending" ELSE "accepted"]
          /\ Len(notifications') = Len(notifications) + 1
          /\ SubSeq(notifications', 1, Len(notifications)) = notifications
          /\ notifications'[Len(notifications')].recipient = t
          /\ notifications'[Len(notifications')].sender = me
          /\ notifications'[Len(notifications')].type =
               IF follows'[<<me, t>>] = "pending" THEN "follow_request" ELSE "follow"
    ]_vars

\* a private account was followed and holds the request
C26_Witness ==
  /\ resp.op = "followUser" /\ resp.status = 201
  /\ follows[<<resp.actor, resp.arg>>] = "pending"
  /\ notifications[Len(notifications)].recipient = resp.arg
  /\ notifications[Len(notifications)].type = "follow_request"

\* C27: isFollowing(follower, target) is true exactly when an accepted edge
\* from follower to target exists; for a pending edge, for no edge and for an
\* anonymous viewer it is false, so that getFollowers of a private account
\* answers 200 to its accepted followers and 403, never an error, to every
\* other viewer but the account itself.
C27_IsFollowingIsAcceptedEdge ==
  [][ /\ \A f \in Viewers, t \in Users :
           isFollowing(f, t) <=>
             (f \in Users /\ docsOf(f, t) # {} /\ follows[<<f, t>>] = "accepted")
      /\ \A viewer \in Viewers, u \in Users, page \in Pages :
           ( /\ resp'.op = "getFollowers"
             /\ getFollowers(viewer, u, page, PageLimit)
             /\ isActive[u] /\ isPrivate[u] /\ viewer # u ) =>
             resp'.status =
               IF viewer \in Users /\ follows[<<viewer, u>>] = "accepted"
                 THEN 200 ELSE 403
    ]_vars

\* an anonymous viewer was turned away from a private account that has an
\* accepted follower
C27_Witness ==
  /\ resp.op = "getFollowers" /\ resp.actor = Anon /\ resp.status = 403
  /\ isPrivate[resp.arg]
  /\ \E f \in Users : follows[<<f, resp.arg>>] = "accepted"

\* the position of the edge document in creation order
edgeCreatedAt(follower, following) ==
  CHOOSE i \in docsOf(follower, following) : TRUE

\* C28: getFollowers and getFollowing return, page by page, only the accepted
\* edges of the requested account, the edge created last first.
C28_FollowListsNewestAcceptedFirst ==
  [][ \A viewer \in Viewers, u \in Users, page \in Pages :
        /\ ( /\ resp'.op = "getFollowers" /\ resp'.status = 200
             /\ getFollowers(viewer, u, page, PageLimit) ) =>
             isPageOf(resp'.list, acceptedFollowers(u), page, PageLimit,
                      LAMBDA q, p : edgeCreatedAt(q, u) > edgeCreatedAt(p, u))
        /\ ( /\ resp'.op = "getFollowing" /\ resp'.status = 200
             /\ getFollowingList(viewer, u, page, PageLimit) ) =>
             isPageOf(resp'.list, acceptedFollowing(u), page, PageLimit,
                      LAMBDA q, p : edgeCreatedAt(u, q) > edgeCreatedAt(u, p))
    ]_vars

\* C29: every stored notification of type like or comment carries a groupKey
\* that depends on its type, entity kind and entity id only, and every
\* notification of another type carries none; likes on posts, likes on
\* comments and the notifications of createComment included.
C29_GroupKeyOnLikesAndComments ==
  \A i \in 1..Len(notifications) :
    LET n == notifications[i]
    IN IF n.type \in {"like", "comment"}
         THEN /\ n.groupKey # NoGroupKey
              /\ \A j \in 1..Len(notifications) :
                   ( /\ notifications[j].type = n.type
                     /\ notifications[j].entityType = n.entityType
                     /\ notifications[j].entityId = n.entityId )
                   => notifications[j].groupKey = n.groupKey
         ELSE n.groupKey = NoGroupKey

\* the notifications a step has added
addedNotifications ==
  SubSeq(notifications', Len(notifications) + 1, Len(notifications'))

\* C30: a reply by S to a comment of C on a post of P notifies P when P is not
\* S and C when C is not S, each of them once: one notification when C and P
\* are one account, and never two for one account.
C30_ReplyNotifiesEachAuthorOnce ==
  [][ \A s \in Users, id \in PostIds, parent \in CommentIds :
        ( /\ resp'.op = "createComment" /\ resp'.status = 201
          /\ createComment(s, id, parent) ) =>
          LET p == posts[id].author
              c == comments[parent].author
          IN /\ SubSeq(notifications', 1, Len(notifications)) = notifications
             /\ \A u \in Users :
                  Cardinality({i \in DOMAIN addedNotifications :
                                 addedNotifications[i].recipient = u})
                    = IF u \in {p, c} \ {s} THEN 1 ELSE 0
             /\ \A i \in DOMAIN addedNotifications :
                  /\ addedNotifications[i].sender = s
                  /\ addedNotifications[i].entityId = Len(comments) + 1
    ]_vars

\* a reply among three different accounts has told the author of the post and
\* the author of the comment
C30_Witness ==
  /\ resp.op = "createComment" /\ resp.status = 201
  /\ commentExists(resp.arg)
  /\ comments[resp.arg].parentComment # NoComment
  /\ LET s == resp.actor
         p == posts[comments[resp.arg].post].author
         c == comments[comments[resp.arg].parentComment].author
     IN /\ s # p /\ s # c /\ p # c
        /\ Len(notifications) >= 2
        /\ {notifications[Len(notifications) - 1].recipient,
            notifications[Len(notifications)].recipient} = {p, c}

\* C36: under any interleaving of toggleLike calls the Like collection holds
\* at most one document per (user, entityType, entityId); an insert that finds
\* a document of its key stored fails with an error and stores nothing.
C36_OneLikePerUserAndEntity ==
  [][ /\ \A u \in Users, t \in {"post", "comment"}, e \in PostIds :
           Cardinality(likesOf(u, t, e))' <= 1
      /\ \A r \in ReqIds :
           ( /\ toggleLike_save(r)
             /\ likesOf(likeReqs[r].user, likeReqs[r].entityType,
                        likeReqs[r].entityId) # {} ) =>
             /\ resp'.status = 500
             /\ UNCHANGED likeDocs
    ]_vars

\* two calls found no like, the second insert was rejected and one document
\* of the key is stored
C36_Witness ==
  /\ \A r \in ReqIds : likeReqs[r].pc = "idle"
  /\ resp.op = "toggleLike" /\ resp.status = 500
  /\ Cardinality(likesOf(resp.actor, resp.arg[1], resp.arg[2])) = 1

\* the active comments, top-level and replies, written on post p
activeCommentsOn(p) ==
  {c \in 1..Len(comments) : comments[c].post = p /\ comments[c].isActive}

\* C37: after any sequence of createComment and deleteComment, commentsCount
\* of a post is the length of its comments list, which is the number of
\* active comments written on the post.
C37_CommentsCountMatchesComments ==
  \A p \in 1..Len(posts) :
    /\ posts[p].commentsCount = Len(posts[p].comments)
    /\ Len(posts[p].comments) = Cardinality(activeCommentsOn(p))

\* C38: likePost, sharePost and createComment succeed on a post only for an
\* actor the visibility table allows to view it: the author of a private
\* post, the author or an accepted follower of a followers-only post.
C38_EngagementNeedsVisibility ==
  [][ \A me \in Users, id \in PostIds :
        ( /\ resp'.op \in {"likePost", "createComment", "sharePost"}
          /\ resp'.status \in {200, 201}
          /\ \/ likePost(me, id)
             \/ sharePost(me, id)
             \/ \E parent \in CommentIds \cup {NoComment} :
                  createComment(me, id, parent) )
        => canView(me, posts[id])
    ]_vars

\* C32: a stored notification changes only by being read and by being
\* deleted: a read notification stays read, a deleted one stays deleted, and
\* recipient, sender, type and entity reference are the same after every
\* markAsRead, markAllAsRead and deleteNotification.
C32_NotificationOnlyReadOrDeleted ==
  [][ /\ Len(notifications') >= Len(notifications)
      /\ \A i \in 1..Len(notifications) :
           /\ notifications'[i].recipient = notifications[i].recipient
           /\ notifications'[i].sender = notifications[i].sender
           /\ notifications'[i].type = notifications[i].type
           /\ notifications'[i].entityType = notifications[i].entityType
           /\ notifications'[i].entityId = notifications[i].entityId
           /\ notifications[i].isRead => notifications'[i].isRead
           /\ ~notifications[i].isActive => ~notifications'[i].isActive
    ]_vars

\* a notification that was read and deleted has been marked as read again
C32_Witness ==
  /\ resp.op \in {"markAsRead", "markAllAsRead"} /\ resp.status = 200
  /\ \E i \in 1..Len(notifications) :
       /\ notifications[i].recipient = resp.actor
       /\ notifications[i].isRead /\ ~notifications[i].isActive
       /\ resp.op = "markAsRead" => resp.arg = i

\* the active notifications of a user, all of them or the unread ones
activeNotifications(u, unreadOnly) ==
  {i \in 1..Len(notifications) :
     /\ notifications[i].recipient = u
     /\ notifications[i].isActive
     /\ unreadOnly => ~notifications[i].isRead}

\* C33: getNotifications with unreadOnly returns a page of the caller's
\* unread active notifications and their number as total; without it, a page
\* of all the caller's active notifications; unreadCount is in both cases the
\* number of the caller's unread active notifications.
C33_UnreadOnlyFiltersPage ==
  [][ \A me \in Users, page \in Pages, unreadOnly \in BOOLEAN :
        ( /\ resp'.op = "getNotifications"
          /\ getNotifications(me, page, PageLimit, unreadOnly) ) =>
          /\ isPageOf(resp'.list, activeNotifications(me, unreadOnly), page,
                      PageLimit, createdLater)
          /\ resp'.count = Cardinality(activeNotifications(me, unreadOnly))
          /\ resp'.unreadCount = Cardinality(activeNotifications(me, TRUE))
    ]_vars

\* C39: markAsRead and deleteNotification by a user who is not the recipient
\* answer 404 and change nothing, and by the recipient change that
\* notification alone; markAllAsRead(u) marks as read exactly the unread
\* notifications of u, changes no other, and leaves u with no unread one.
C39_OnlyRecipientChangesNotification ==
  [][ /\ \A me \in Users, id \in NotifIds :
           ( /\ resp'.op \in {"markAsRead", "deleteNotification"}
             /\ notificationExists(id)
             /\ markAsRead(me, id) \/ deleteNotification(me, id) ) =>
             /\ \A j \in 1..Len(notifications) :
                  j # id => notifications'[j] = notifications[j]
             /\ IF notifications[id].recipient = me
                  THEN resp'.status = 200
                  ELSE resp'.status = 404 /\ UNCHANGED notifications
      /\ \A u \in Users :
           (resp'.op = "markAllAsRead" /\ markAllAsRead(u)) =>
             /\ Len(notifications') = Len(notifications)
             /\ \A i \in 1..Len(notifications) :
                  IF notifications[i].recipient = u /\ ~notifications[i].isRead
                    THEN /\ notifications'[i].isRead
                         /\ notifications'[i].isActive = notifications[i].isActive
                    ELSE notifications'[i] = notifications[i]
             /\ getUnreadCount(u)' = 0
    ]_vars

\* a user who is not the recipient was refused an unread notification
C39_Witness ==
  /\ resp.op \in {"markAsRead", "deleteNotification"} /\ resp.status = 404
  /\ notificationExists(resp.arg)
  /\ notifications[resp.arg].recipient # resp.actor
  /\ ~notifications[resp.arg].isRead /\ notifications[resp.arg].isActive

\* no follow request is between two awaits
followQuiescent == \A r \in ReqIds : followReqs[r].pc = "idle"

\* the stored counters of every account are the counts of its accepted edges
countersMatch ==
  \A u \in Users : <<followersCount[u], followingCount[u]>> = getFollowStats(u)

\* C31: when a follow or unfollow has stopped between its edge write and its
\* counter writes, the counters are eventually the numbers of accepted edges
\* again: no drift stays for ever.
C31_CounterDriftIsRepaired ==
  (followQuiescent /\ ~countersMatch) ~> countersMatch

\* C34: in every reachable state, the states between the awaits of
\* concurrent followUser and unfollowUser calls included, followersCount and
\* followingCount of every account are at least zero.
C34_CountersNeverNegative ==
  \A u \in Users : followersCount[u] >= 0 /\ followingCount[u] >= 0

\* the notifications of one type from one account to another
notificationsOfType(type, sender, recipient) ==
  {i \in 1..Len(notifications) :
     /\ notifications[i].type = type
     /\ notifications[i].sender = sender
     /\ notifications[i].recipient = recipient}

\* C35: whatever the interleaving of accept, reject and unfollow calls, a
\* pending edge from F to T gives F at most one follow notification from T.
\* (F private: every follow notification T sends to F is one of an accept.)
C35_OneAcceptNotificationPerRequest ==
  \A f \in Users, t \in Users :
    (f # t /\ isPrivate[f]) =>
      Cardinality(notificationsOfType("follow", t, f))
        <= Cardinality(notificationsOfType("follow_request", f, t))

====
